---- MODULE Spec2Model ----
(***************************************************************************)
(* A model of wimlib's mount subsystem (src/src/mount_image.c): the        *)
(* unmount protocol between the unmount command (wimlib_unmount_image)     *)
(* and the filesystem daemon (wimfs_destroy and its message loop).         *)
(***************************************************************************)
EXTENDS Integers, Sequences, FiniteSets, TLC

(***************************************************************************)
(* Bounds of the model.                                                    *)
(***************************************************************************)
\* how many foreign messages the environment may put into the two queues
MaxInjected == 1

(***************************************************************************)
(* Program constants.                                                      *)
(***************************************************************************)
\* sizeof(struct unmount_msg_hdr): four u32
SizeofHdr == 16
\* sizeof(struct msg_unmount_request): header + u32
SizeofUnmountRequest == 20
\* sizeof(struct msg_daemon_info): header + pid_t + u32
SizeofDaemonInfo == 24
\* sizeof(struct msg_unmount_finished): header + int32_t
SizeofUnmountFinished == 20
\* WIMLIB_MAKEVERSION(1, 2, 0), the min_version every sender writes
MinVersionSent == 120
\* WIMLIB_VERSION_CODE of this build (at least 1.2.0)
WIMLIB_VERSION_CODE == 120
\* the initial receive timeout of both message loops
InitialTimeoutSeconds == 5
\* the receive timeout after DAEMON_INFO
ShortTimeoutSeconds == 1
\* enum: MSG_TYPE_UNMOUNT_REQUEST .. MSG_TYPE_MAX
MSG_TYPE_UNMOUNT_REQUEST == 0
MSG_TYPE_DAEMON_INFO == 1
MSG_TYPE_UNMOUNT_FINISHED == 2
MSG_TYPE_MAX == 3

\* return codes (wimlib.h is not part of the sources: kept symbolic)
RET_OK == "0"
MSG_VERSION_TOO_HIGH == "MSG_VERSION_TOO_HIGH"
MSG_BREAK_LOOP == "MSG_BREAK_LOOP"
WIMLIB_ERR_TIMEOUT == "WIMLIB_ERR_TIMEOUT"
WIMLIB_ERR_MQUEUE == "WIMLIB_ERR_MQUEUE"
WIMLIB_ERR_INVALID_UNMOUNT_MESSAGE == "WIMLIB_ERR_INVALID_UNMOUNT_MESSAGE"
WIMLIB_ERR_FILESYSTEM_DAEMON_CRASHED == "WIMLIB_ERR_FILESYSTEM_DAEMON_CRASHED"
WIMLIB_ERR_FUSERMOUNT == "WIMLIB_ERR_FUSERMOUNT"
WIMLIB_ERR_NOTDIR == "WIMLIB_ERR_NOTDIR"

\* unmount flags and mount flags are sets of flag names
UnmountFlagSets == {{}, {"COMMIT"}, {"COMMIT", "CHECK_INTEGRITY"}}
MountFlagSets == {{"READWRITE"}, {}}

\* process ids: 0 is "not known"; the daemon's own; one of a process of
\* another user
NoPid == 0
ForeignPids == {1}
Pids == {2}

VARIABLES
    \* ---- the mount ----
    mount_flags,     \* wimfs_context.mount_flags of the daemon
    daemon_pid,      \* getpid() in the daemon
    dalive,          \* the daemon process exists
    host_unmounted,  \* the host has been told to unmount (fusermount -u ran)
    staging_dir,     \* the staging directory exists on disk
    archive,         \* how many times the archive file was rewritten
    \* ---- message queues ----
    u2d,             \* unmount_to_daemon_mq: sequence of messages
    d2u,             \* daemon_to_unmount_mq: sequence of messages
    mq_linked,       \* the two queue names exist
    mq_open,         \* the processes holding descriptors of the queues
    injected,        \* foreign messages put into the queues so far
    \* ---- the unmount command: wimlib_unmount_image ----
    upc,             \* "start" | "opened" | "sent" | "loop" | "done"
    unmount_flags,   \* the flags the unmount command was called with
    uctx,            \* struct msg_handler_context (unmount side)
    uret,            \* return value of wimlib_unmount_image
    ulast,           \* what the last message-loop iteration saw
    \* ---- the daemon: wimfs_destroy ----
    dpc,             \* "mounted" | "loop" | "exited" | "dead"
    dret,            \* return value the daemon's message_loop ended with
    dlog             \* the steps the daemon has run, in order

protoVars == <<mount_flags, daemon_pid, dalive, host_unmounted, staging_dir,
               archive, u2d, d2u, mq_linked, mq_open, injected, upc, unmount_flags, uctx, uret,
               ulast, dpc, dret, dlog>>

VARIABLES
    \* ---- the mounted image (read-write mount) ----
    inodes,          \* struct inode, by slot; the dentry tree is in .children
    ltes,            \* struct lookup_table_entry (blob descriptor), by slot
    sfiles,          \* the files of the staging directory
    staging_list,    \* wimfs_context.staging_list
    fslast           \* the last filesystem call and what it returned

VARIABLES
    \* ---- one inode's table of handles, at its real size ----
    fdt,             \* inode->fds as counters and the set of NULL slots
    \* ---- one call of wimlib_mount_image ----
    mnt,             \* its arguments, what fails in it, and what it returns
    \* ---- the commit of the mounted image: rebuild_wim ----
    commit           \* how far rebuild_wim has got and what its last step did

VARIABLES
    \* ---- the threads of a multi-threaded read-only mount ----
    thr,             \* where each thread is in open or release, and the
                     \* inodes and the blob they work on
    \* ---- wimlib_export_image (src/src/export_image.c) ----
    xp,              \* the two archives of an export and what the last call
                     \* returned
    \* ---- the unmount commands of one mount point, one after the other ----
    ucmd             \* how many were started, and how the earlier ones ended

sideVars == <<thr, xp, ucmd>>

tableVars == <<fdt, mnt, commit, sideVars>>

imageVars == <<inodes, ltes, sfiles, staging_list, fslast>>

fsVars == <<imageVars, tableVars>>

vars == <<protoVars, fsVars>>

(***************************************************************************)
(* Messages.  bytes is the number of bytes mq_timedreceive returns.        *)
(***************************************************************************)
Msg(type, min_version, msg_size, bytes, body) ==
    [msg_type |-> type, min_version |-> min_version, msg_size |-> msg_size,
     bytes |-> bytes, body |-> body]

UnmountRequestMsg(flags) ==
    Msg(MSG_TYPE_UNMOUNT_REQUEST, MinVersionSent, SizeofUnmountRequest,
        SizeofUnmountRequest, [unmount_flags |-> flags])

DaemonInfoMsg(pid, mflags) ==
    Msg(MSG_TYPE_DAEMON_INFO, MinVersionSent, SizeofDaemonInfo,
        SizeofDaemonInfo, [daemon_pid |-> pid, mount_flags |-> mflags])

UnmountFinishedMsg(status) ==
    Msg(MSG_TYPE_UNMOUNT_FINISHED, MinVersionSent, SizeofUnmountFinished,
        SizeofUnmountFinished, [status |-> status])

(***************************************************************************)
(* Message queues.  A queue lives while its name is linked or a process    *)
(* holds a descriptor of it.                                               *)
(***************************************************************************)
\* open_message_queues, both mq_open calls succeeding: O_CREAT makes the
\* queues when the names do not exist
OpenMessageQueues(who) ==
    /\ mq_linked' = TRUE
    /\ mq_open' = mq_open \cup {who}

\* close_message_queues: mq_close both, then unlink_message_queues
CloseMessageQueues(who, newu2d, newd2u) ==
    /\ mq_linked' = FALSE
    /\ mq_open' = mq_open \ {who}
    /\ u2d' = IF mq_open \ {who} = {} THEN <<>> ELSE newu2d
    /\ d2u' = IF mq_open \ {who} = {} THEN <<>> ELSE newd2u

\* the descriptors of a process that dies are closed, the names stay
DropDescriptors(who) ==
    /\ mq_open' = mq_open \ {who}
    /\ UNCHANGED mq_linked
    /\ u2d' = IF mq_open \ {who} = {} /\ ~mq_linked THEN <<>> ELSE u2d
    /\ d2u' = IF mq_open \ {who} = {} /\ ~mq_linked THEN <<>> ELSE d2u

(***************************************************************************)
(* receive_message and message_loop                                        *)
(***************************************************************************)
\* ReceiveMessage without the comparison of msg_size with the bytes received
ReceiveMessage_IgnoresSize(m) ==
    IF m.bytes < SizeofHdr
    THEN WIMLIB_ERR_INVALID_UNMOUNT_MESSAGE
    ELSE IF WIMLIB_VERSION_CODE < m.min_version
    THEN MSG_VERSION_TOO_HIGH
    ELSE IF m.msg_type >= MSG_TYPE_MAX
    THEN WIMLIB_ERR_INVALID_UNMOUNT_MESSAGE
    ELSE "dispatch"

\* receive_message up to the dispatch: "dispatch" when a handler is looked up
ReceiveMessage(m) ==
    IF m.bytes < SizeofHdr \/ m.bytes # m.msg_size
    THEN WIMLIB_ERR_INVALID_UNMOUNT_MESSAGE
    ELSE IF WIMLIB_VERSION_CODE < m.min_version
    THEN MSG_VERSION_TOO_HIGH
    ELSE IF m.msg_type >= MSG_TYPE_MAX
    THEN WIMLIB_ERR_INVALID_UNMOUNT_MESSAGE
    ELSE "dispatch"

\* MessageLoopStep that leaves the loop on MSG_VERSION_TOO_HIGH
MessageLoopStep_BreaksOnVersion(ret, timed_out_ret) ==
    IF ret = RET_OK
    THEN [go |-> "continue", ret |-> RET_OK]
    ELSE IF ret = MSG_BREAK_LOOP
    THEN [go |-> "break", ret |-> RET_OK]
    ELSE IF ret = WIMLIB_ERR_TIMEOUT
    THEN IF timed_out_ret = RET_OK
         THEN [go |-> "continue", ret |-> RET_OK]
         ELSE [go |-> "break", ret |-> timed_out_ret]
    ELSE [go |-> "break", ret |-> ret]

\* what message_loop does with the value of one receive_message:
\* "continue", or "break" with the loop's return value
MessageLoopStep(ret, timed_out_ret) ==
    IF ret = RET_OK \/ ret = MSG_VERSION_TOO_HIGH
    THEN [go |-> "continue", ret |-> RET_OK]
    ELSE IF ret = MSG_BREAK_LOOP
    THEN [go |-> "break", ret |-> RET_OK]
    ELSE IF ret = WIMLIB_ERR_TIMEOUT
    THEN IF timed_out_ret = RET_OK
         THEN [go |-> "continue", ret |-> RET_OK]
         ELSE [go |-> "break", ret |-> timed_out_ret]
    ELSE [go |-> "break", ret |-> ret]

(***************************************************************************)
(* The unmount command's handlers                                          *)
(***************************************************************************)
InitUnmountCtx ==
    [timeout_seconds |-> InitialTimeoutSeconds, daemon_pid |-> NoPid,
     mount_flags |-> {}, status |-> RET_OK]

MsgDaemonInfoHandler(m, ctx) ==
    IF m.msg_size < SizeofDaemonInfo
    THEN [ret |-> WIMLIB_ERR_INVALID_UNMOUNT_MESSAGE, ctx |-> ctx]
    ELSE [ret |-> RET_OK,
          ctx |-> [ctx EXCEPT !.daemon_pid = m.body.daemon_pid,
                              !.mount_flags = m.body.mount_flags,
                              !.timeout_seconds = ShortTimeoutSeconds]]

MsgUnmountFinishedHandler(m, ctx) ==
    IF m.msg_size < SizeofUnmountFinished
    THEN [ret |-> WIMLIB_ERR_INVALID_UNMOUNT_MESSAGE, ctx |-> ctx]
    ELSE [ret |-> MSG_BREAK_LOOP, ctx |-> [ctx EXCEPT !.status = m.body.status]]

\* unmount_msg_handler_callbacks.msg_handlers, applied by receive_message
UnmountReceive(m, ctx) ==
    IF ReceiveMessage(m) # "dispatch"
    THEN [ret |-> ReceiveMessage(m), ctx |-> ctx]
    ELSE IF m.msg_type = MSG_TYPE_DAEMON_INFO
    THEN MsgDaemonInfoHandler(m, ctx)
    ELSE IF m.msg_type = MSG_TYPE_UNMOUNT_FINISHED
    THEN MsgUnmountFinishedHandler(m, ctx)
    ELSE [ret |-> WIMLIB_ERR_INVALID_UNMOUNT_MESSAGE, ctx |-> ctx]

\* kill(pid, 0): the errno it leaves
Kill0(pid) ==
    IF pid = daemon_pid
    THEN IF dalive THEN "0" ELSE "ESRCH"
    ELSE IF pid \in ForeignPids THEN "EPERM" ELSE "ESRCH"

\* UnmountTimedOutCb that keeps waiting while no pid is known
UnmountTimedOutCb_WaitsWithoutPid(ctx) ==
    IF ctx.daemon_pid = NoPid
    THEN RET_OK
    ELSE IF Kill0(ctx.daemon_pid) = "ESRCH"
    THEN WIMLIB_ERR_FILESYSTEM_DAEMON_CRASHED
    ELSE IF Kill0(ctx.daemon_pid) # "0"
    THEN WIMLIB_ERR_MQUEUE
    ELSE RET_OK

UnmountTimedOutCb(ctx) ==
    IF ctx.daemon_pid = NoPid
    THEN WIMLIB_ERR_FILESYSTEM_DAEMON_CRASHED
    ELSE IF Kill0(ctx.daemon_pid) = "ESRCH"
    THEN WIMLIB_ERR_FILESYSTEM_DAEMON_CRASHED
    ELSE IF Kill0(ctx.daemon_pid) # "0"
    THEN WIMLIB_ERR_MQUEUE
    ELSE RET_OK

\* UnmountReturn without the copy of the status
UnmountReturn_IgnoresStatus(loopret, ctx) == loopret

\* wimlib_unmount_image after message_loop: if (ret == 0) ret = status
UnmountReturn(loopret, ctx) ==
    IF loopret = RET_OK THEN ctx.status ELSE loopret

(***************************************************************************)
(* The daemon's handler of UNMOUNT_REQUEST.  The handler is a sequence of  *)
(* steps; each step is logged as an event [ev, res, flags, status].        *)
(* o gives the outcome of every system call or library call it makes.      *)
(***************************************************************************)
Ev(ev, res) == [ev |-> ev, res |-> res, flags |-> {}, status |-> RET_OK]

DrainErrs == {"-EIO"}
RehashErrs == {"WIMLIB_ERR_OPEN", "WIMLIB_ERR_STAT"}
WriteErrs == {"WIMLIB_ERR_WRITE"}
DeleteErrs == {"-1"}

\* the outcomes of the calls made while one request is handled
Outcomes ==
    [info : {RET_OK, WIMLIB_ERR_MQUEUE},
     drain : {RET_OK} \cup DrainErrs,
     rehash : {RET_OK} \cup RehashErrs,
     write : {RET_OK} \cup WriteErrs,
     delete : {RET_OK} \cup DeleteErrs,
     fin : {RET_OK, WIMLIB_ERR_MQUEUE}]

\* rebuild_wim: drain, rehash, write, each ending the commit on failure
RebuildWimSteps(o) ==
    IF o.drain # RET_OK THEN <<Ev("drain", o.drain)>>
    ELSE IF o.rehash # RET_OK
    THEN <<Ev("drain", RET_OK), Ev("rehash", o.rehash)>>
    ELSE <<Ev("drain", RET_OK), Ev("rehash", RET_OK), Ev("write", o.write)>>

\* the value rebuild_wim returns: that of its last step
RebuildWimRet(o) == RebuildWimSteps(o)[Len(RebuildWimSteps(o))].res

\* CommitRequested without the test of WIMLIB_UNMOUNT_FLAG_COMMIT
CommitRequested_IgnoresCommitFlag(mflags, uflags) ==
    "READWRITE" \in mflags

\* the test that guards rebuild_wim in msg_unmount_request_handler
CommitRequested(mflags, uflags) ==
    "READWRITE" \in mflags /\ "COMMIT" \in uflags

\* StatusAfterDelete without the test status == 0
StatusAfterDelete_Overwrites(status, ret) ==
    IF ret # RET_OK THEN ret ELSE status

\* the handler's label out: the status after delete_staging_dir returned ret
StatusAfterDelete(status, ret) ==
    IF ret # RET_OK /\ status = RET_OK THEN ret ELSE status

\* HandlerOut that forgets the status it was entered with
HandlerOut_DropsStatus(status, mflags, o) ==
    IF "READWRITE" \in mflags
    THEN <<Ev("delete_staging", o.delete),
           [Ev("finished", o.fin) EXCEPT
               !.status = StatusAfterDelete(RET_OK, o.delete)]>>
    ELSE <<[Ev("finished", o.fin) EXCEPT !.status = RET_OK]>>

\* HandlerOut that deletes the staging directory only after a clean handler
HandlerOut_SkipsDeleteOnError(status, mflags, o) ==
    IF "READWRITE" \in mflags /\ status = RET_OK
    THEN <<Ev("delete_staging", o.delete),
           [Ev("finished", o.fin) EXCEPT
               !.status = StatusAfterDelete(status, o.delete)]>>
    ELSE <<[Ev("finished", o.fin) EXCEPT !.status = status]>>

\* the handler from label out on: delete_staging_dir on a read-write mount,
\* then send_unmount_finished_msg
HandlerOut(status, mflags, o) ==
    IF "READWRITE" \in mflags
    THEN <<Ev("delete_staging", o.delete),
           [Ev("finished", o.fin) EXCEPT
               !.status = StatusAfterDelete(status, o.delete)]>>
    ELSE <<[Ev("finished", o.fin) EXCEPT !.status = status]>>

\* msg_unmount_request_handler: the events it runs, in order
\* a handler that starts the commit before it sends DAEMON_INFO
MsgUnmountRequestHandler_CommitsFirst(m, mflags, o) ==
    IF m.msg_size < SizeofUnmountRequest
    THEN <<Ev("request", "short")>>
         \o HandlerOut(WIMLIB_ERR_INVALID_UNMOUNT_MESSAGE, mflags, o)
    ELSE <<[Ev("request", RET_OK) EXCEPT !.flags = m.body.unmount_flags]>>
         \o (IF CommitRequested(mflags, m.body.unmount_flags)
             THEN RebuildWimSteps(o) \o <<Ev("daemon_info", o.info)>>
                  \o HandlerOut(RebuildWimRet(o), mflags, o)
             ELSE <<Ev("daemon_info", o.info)>>
                  \o HandlerOut(o.info, mflags, o))

MsgUnmountRequestHandler(m, mflags, o) ==
    IF m.msg_size < SizeofUnmountRequest
    THEN <<Ev("request", "short")>>
         \o HandlerOut(WIMLIB_ERR_INVALID_UNMOUNT_MESSAGE, mflags, o)
    ELSE <<[Ev("request", RET_OK) EXCEPT !.flags = m.body.unmount_flags]>>
         \o <<Ev("daemon_info", o.info)>>
         \o (IF o.info # RET_OK
             THEN HandlerOut(o.info, mflags, o)
             ELSE IF CommitRequested(mflags, m.body.unmount_flags)
             THEN RebuildWimSteps(o) \o HandlerOut(RebuildWimRet(o), mflags, o)
             ELSE HandlerOut(RET_OK, mflags, o))

\* a handler that lets message_loop go on to the next message
MsgUnmountRequestHandlerRet_Continues == RET_OK

\* the value msg_unmount_request_handler returns, whatever its status
MsgUnmountRequestHandlerRet == MSG_BREAK_LOOP

\* the events of a log with a given name
EvsOf(log, ev) == {i \in 1..Len(log) : log[i].ev = ev}
HasEv(log, ev) == EvsOf(log, ev) # {}
HasOkEv(log, ev) == \E i \in EvsOf(log, ev) : log[i].res = RET_OK
TheEv(log, ev) == log[CHOOSE i \in EvsOf(log, ev) : TRUE]

\* the messages the events of a handler run put into daemon_to_unmount_mq
SentBy(steps) ==
    (IF HasOkEv(steps, "daemon_info")
     THEN <<DaemonInfoMsg(daemon_pid, mount_flags)>> ELSE <<>>)
    \o (IF HasOkEv(steps, "finished")
        THEN <<UnmountFinishedMsg(TheEv(steps, "finished").status)>>
        ELSE <<>>)

\* the effect of the events of a handler run on the disk
HandlerDiskEffects(steps) ==
    /\ archive' = IF HasOkEv(steps, "write") THEN archive + 1 ELSE archive
    /\ staging_dir' = IF HasOkEv(steps, "delete_staging")
                      THEN FALSE ELSE staging_dir

(***************************************************************************)
(* Actions of the unmount command: wimlib_unmount_image                    *)
(***************************************************************************)
NoMsg == Msg(MSG_TYPE_MAX, 0, 0, 0, [none |-> TRUE])
Last(kind, m, alive) == [kind |-> kind, msg |-> m, alive |-> alive]

\* the command returns ret through out_close_message_queues
UnmountReturns(ret, newd2u) ==
    /\ upc' = "done"
    /\ uret' = ret
    /\ CloseMessageQueues("U", u2d, newd2u)

\* set_message_queue_names and open_message_queues
U_Open ==
    /\ upc = "start"
    \* a later command whose O_CREAT would make queues of its own, apart
    \* from the unlinked ones the daemon holds, is left out
    /\ ucmd.n > 1 => (mq_linked \/ mq_open = {})
    /\ \E r \in {RET_OK, WIMLIB_ERR_NOTDIR, WIMLIB_ERR_MQUEUE} :
          IF r = RET_OK
          THEN /\ upc' = "opened"
               /\ OpenMessageQueues("U")
               /\ UNCHANGED uret
          ELSE /\ upc' = "done"
               /\ uret' = r
               /\ UNCHANGED <<mq_linked, mq_open>>
    /\ UNCHANGED <<mount_flags, daemon_pid, dalive, host_unmounted,
                   staging_dir, archive, u2d, d2u, injected, unmount_flags,
                   uctx, ulast, dpc, dret, dlog>>
    /\ UNCHANGED fsVars

\* send_unmount_request_msg
U_SendRequest ==
    /\ upc = "opened"
    /\ \E r \in {RET_OK, WIMLIB_ERR_MQUEUE} :
          IF r = RET_OK
          THEN /\ u2d' = Append(u2d, UnmountRequestMsg(unmount_flags))
               /\ upc' = "sent"
               /\ UNCHANGED <<uret, d2u, mq_linked, mq_open>>
          ELSE UnmountReturns(r, d2u)
    /\ UNCHANGED <<mount_flags, daemon_pid, dalive, host_unmounted,
                   staging_dir, archive, injected, unmount_flags, uctx,
                   ulast, dpc, dret, dlog>>
    /\ UNCHANGED fsVars

\* execute_fusermount, then the start of message_loop (get_mailbox)
U_Fusermount ==
    /\ upc = "sent"
    /\ \E r \in {RET_OK, WIMLIB_ERR_FUSERMOUNT},
          mailbox \in {RET_OK, WIMLIB_ERR_MQUEUE} :
          \* fusermount -u and umount fail on what is no longer mounted
          /\ host_unmounted => r # RET_OK
          /\ IF r # RET_OK
             THEN /\ UnmountReturns(r, d2u)
                  /\ UNCHANGED <<host_unmounted, uctx>>
             ELSE /\ host_unmounted' = TRUE
                  /\ uctx' = InitUnmountCtx
                  /\ IF mailbox # RET_OK
                     THEN UnmountReturns(mailbox, d2u)
                     ELSE /\ upc' = "loop"
                          /\ UNCHANGED <<uret, u2d, d2u, mq_linked,
                                         mq_open>>
    /\ UNCHANGED <<mount_flags, daemon_pid, dalive, staging_dir, archive,
                   injected, unmount_flags, ulast, dpc, dret, dlog>>
    /\ UNCHANGED fsVars

\* one iteration of message_loop in which mq_timedreceive returns a message
U_Receive ==
    /\ upc = "loop"
    /\ d2u # <<>>
    /\ LET m == Head(d2u)
           r == UnmountReceive(m, uctx)
           l == MessageLoopStep(r.ret, RET_OK)
       IN  /\ uctx' = r.ctx
           /\ ulast' = Last("msg", m, dalive)
           /\ IF l.go = "continue"
              THEN /\ d2u' = Tail(d2u)
                   /\ UNCHANGED <<upc, uret, u2d, mq_linked, mq_open>>
              ELSE UnmountReturns(UnmountReturn(l.ret, r.ctx), Tail(d2u))
    /\ UNCHANGED <<mount_flags, daemon_pid, dalive, host_unmounted,
                   staging_dir, archive, injected, unmount_flags, dpc, dret,
                   dlog>>
    /\ UNCHANGED fsVars

\* one iteration of message_loop in which mq_timedreceive times out
U_Timeout ==
    /\ upc = "loop"
    /\ d2u = <<>>
    /\ LET l == MessageLoopStep(WIMLIB_ERR_TIMEOUT, UnmountTimedOutCb(uctx))
       IN  /\ ulast' = Last("timeout", NoMsg, dalive)
           /\ IF l.go = "continue"
              THEN UNCHANGED <<upc, uret, u2d, d2u, mq_linked, mq_open>>
              ELSE UnmountReturns(UnmountReturn(l.ret, uctx), d2u)
    /\ UNCHANGED <<mount_flags, daemon_pid, dalive, host_unmounted,
                   staging_dir, archive, injected, unmount_flags, uctx, dpc,
                   dret, dlog>>
    /\ UNCHANGED fsVars

\* one iteration of message_loop in which mq_timedreceive fails otherwise
U_RecvError ==
    /\ upc = "loop"
    /\ LET l == MessageLoopStep(WIMLIB_ERR_MQUEUE, RET_OK)
       IN  /\ ulast' = Last("error", NoMsg, dalive)
           /\ UnmountReturns(UnmountReturn(l.ret, uctx), d2u)
    /\ UNCHANGED <<mount_flags, daemon_pid, dalive, host_unmounted,
                   staging_dir, archive, injected, unmount_flags, uctx, dpc,
                   dret, dlog>>
    /\ UNCHANGED fsVars

(***************************************************************************)
(* Actions of the daemon: wimfs_destroy                                    *)
(***************************************************************************)
\* the daemon leaves message_loop with ret and closes the queues
DaemonLeaves(ret, newu2d, newd2u) ==
    /\ dpc' = "exited"
    /\ dret' = ret
    /\ CloseMessageQueues("D", newu2d, newd2u)

\* the host calls wimfs_destroy: open_message_queues, get_mailbox
D_Destroy ==
    /\ dpc = "mounted" /\ dalive /\ host_unmounted
    /\ \E open \in {RET_OK, WIMLIB_ERR_MQUEUE},
          mailbox \in {RET_OK, WIMLIB_ERR_MQUEUE} :
          IF open # RET_OK
          THEN /\ dpc' = "exited"
               /\ dret' = "open_message_queues failed"
               /\ UNCHANGED <<u2d, d2u, mq_linked, mq_open>>
          ELSE IF mailbox # RET_OK
          THEN DaemonLeaves(mailbox, u2d, d2u)
          ELSE /\ dpc' = "loop"
               /\ OpenMessageQueues("D")
               /\ UNCHANGED <<dret, u2d, d2u>>
    /\ UNCHANGED <<mount_flags, daemon_pid, dalive, host_unmounted,
                   staging_dir, archive, injected, upc, unmount_flags, uctx,
                   uret, ulast, dlog>>
    /\ UNCHANGED fsVars

\* one iteration of message_loop in which a message is received; an
\* UNMOUNT_REQUEST is handled to the end of its handler
D_Receive ==
    /\ dpc = "loop" /\ dalive
    /\ u2d # <<>>
    /\ LET m == Head(u2d)
           r == ReceiveMessage(m)
       IN  IF r = "dispatch" /\ m.msg_type = MSG_TYPE_UNMOUNT_REQUEST
           THEN \E o \in Outcomes :
                  LET steps == MsgUnmountRequestHandler(m, mount_flags, o)
                      l == MessageLoopStep(MsgUnmountRequestHandlerRet, RET_OK)
                  IN  /\ dlog' = dlog \o steps
                      /\ HandlerDiskEffects(steps)
                      /\ IF l.go = "continue"
                         THEN /\ u2d' = Tail(u2d)
                              /\ d2u' = d2u \o SentBy(steps)
                              /\ UNCHANGED <<dpc, dret, mq_linked, mq_open>>
                         ELSE DaemonLeaves(l.ret, Tail(u2d),
                                           d2u \o SentBy(steps))
           ELSE LET ret == IF r = "dispatch"
                           THEN WIMLIB_ERR_INVALID_UNMOUNT_MESSAGE ELSE r
                    l == MessageLoopStep(ret, RET_OK)
                IN  /\ UNCHANGED <<dlog, archive, staging_dir>>
                    /\ IF l.go = "continue"
                       THEN /\ u2d' = Tail(u2d)
                            /\ UNCHANGED <<dpc, dret, d2u, mq_linked, mq_open>>
                       ELSE DaemonLeaves(l.ret, Tail(u2d), d2u)
    /\ UNCHANGED <<mount_flags, daemon_pid, dalive, host_unmounted, injected,
                   upc, unmount_flags, uctx, uret, ulast>>
    /\ UNCHANGED fsVars

\* a callback that lets the daemon wait on
DaemonTimedOutCb_KeepsWaiting == RET_OK

\* daemon_timed_out_cb
DaemonTimedOutCb == WIMLIB_ERR_TIMEOUT

\* one iteration of message_loop in which mq_timedreceive times out
D_Timeout ==
    /\ dpc = "loop" /\ dalive
    /\ u2d = <<>>
    /\ LET l == MessageLoopStep(WIMLIB_ERR_TIMEOUT, DaemonTimedOutCb)
       IN  IF l.go = "continue"
           THEN UNCHANGED <<dpc, dret, u2d, d2u, mq_linked, mq_open>>
           ELSE DaemonLeaves(l.ret, u2d, d2u)
    /\ UNCHANGED <<mount_flags, daemon_pid, dalive, host_unmounted,
                   staging_dir, archive, injected, upc, unmount_flags, uctx,
                   uret, ulast, dlog>>
    /\ UNCHANGED fsVars

\* one iteration of message_loop in which mq_timedreceive fails otherwise
D_RecvError ==
    /\ dpc = "loop" /\ dalive
    /\ LET l == MessageLoopStep(WIMLIB_ERR_MQUEUE, RET_OK)
       IN  DaemonLeaves(l.ret, u2d, d2u)
    /\ UNCHANGED <<mount_flags, daemon_pid, dalive, host_unmounted,
                   staging_dir, archive, injected, upc, unmount_flags, uctx,
                   uret, ulast, dlog>>
    /\ UNCHANGED fsVars

\* wimfs_destroy has returned: fuse_main returns and the process ends
D_Exit ==
    /\ dpc = "exited" /\ dalive
    /\ dalive' = FALSE
    /\ UNCHANGED <<mount_flags, daemon_pid, host_unmounted, staging_dir,
                   archive, u2d, d2u, mq_linked, mq_open, injected, upc,
                   unmount_flags, uctx, uret, ulast, dpc, dret, dlog>>
    /\ UNCHANGED fsVars

\* the daemon process is killed outside a handler
D_Crash ==
    /\ dpc \in {"mounted", "loop"} /\ dalive
    /\ dalive' = FALSE
    /\ dpc' = "dead"
    /\ DropDescriptors("D")
    /\ UNCHANGED <<mount_flags, daemon_pid, host_unmounted, staging_dir,
                   archive, injected, upc, unmount_flags, uctx, uret, ulast,
                   dret, dlog>>
    /\ UNCHANGED fsVars

\* the daemon process is killed inside the UNMOUNT_REQUEST handler, after
\* the first k of its steps
D_CrashInHandler ==
    /\ dpc = "loop" /\ dalive
    /\ u2d # <<>>
    /\ ReceiveMessage(Head(u2d)) = "dispatch"
    /\ Head(u2d).msg_type = MSG_TYPE_UNMOUNT_REQUEST
    /\ \E o \in Outcomes :
         LET all == MsgUnmountRequestHandler(Head(u2d), mount_flags, o)
         IN  \E k \in 1..(Len(all) - 1) :
               LET steps == SubSeq(all, 1, k)
               IN  /\ dlog' = dlog \o steps
                   /\ HandlerDiskEffects(steps)
                   /\ dalive' = FALSE
                   /\ dpc' = "dead"
                   /\ mq_open' = mq_open \ {"D"}
                   /\ UNCHANGED mq_linked
                   /\ u2d' = Tail(u2d)
                   /\ d2u' = d2u \o SentBy(steps)
    /\ UNCHANGED <<mount_flags, daemon_pid, host_unmounted, injected, upc,
                   unmount_flags, uctx, uret, ulast, dret>>
    /\ UNCHANGED fsVars

(***************************************************************************)
(* The environment: messages of other senders in the two queues            *)
(***************************************************************************)
TooHighVersion == WIMLIB_VERSION_CODE + 1

ForeignToUnmount ==
    { UnmountFinishedMsg("WIMLIB_ERR_WRITE"),
      Msg(MSG_TYPE_UNMOUNT_FINISHED, MinVersionSent, SizeofHdr, SizeofHdr,
          [status |-> RET_OK]),
      Msg(MSG_TYPE_UNMOUNT_FINISHED, MinVersionSent, SizeofDaemonInfo,
          SizeofUnmountFinished, [status |-> RET_OK]),
      Msg(MSG_TYPE_UNMOUNT_FINISHED, TooHighVersion, SizeofUnmountFinished,
          SizeofUnmountFinished, [status |-> RET_OK]),
      Msg(MSG_TYPE_UNMOUNT_FINISHED, TooHighVersion, SizeofDaemonInfo,
          SizeofUnmountFinished, [status |-> RET_OK]),
      Msg(MSG_TYPE_MAX, MinVersionSent, SizeofHdr, SizeofHdr, [none |-> TRUE]),
      UnmountRequestMsg({}) }
    \cup {DaemonInfoMsg(p, {}) : p \in ForeignPids}

ForeignToDaemon ==
    { UnmountRequestMsg({"COMMIT"}),
      Msg(MSG_TYPE_UNMOUNT_REQUEST, MinVersionSent, SizeofHdr, SizeofHdr,
          [unmount_flags |-> {"COMMIT"}]),
      Msg(MSG_TYPE_UNMOUNT_REQUEST, TooHighVersion, SizeofUnmountRequest,
          SizeofUnmountRequest, [unmount_flags |-> {"COMMIT"}]),
      Msg(MSG_TYPE_UNMOUNT_REQUEST, MinVersionSent, SizeofDaemonInfo,
          SizeofUnmountRequest, [unmount_flags |-> {"COMMIT"}]),
      Msg(MSG_TYPE_UNMOUNT_REQUEST, TooHighVersion, SizeofDaemonInfo,
          SizeofUnmountRequest, [unmount_flags |-> {"COMMIT"}]) }
    \cup {DaemonInfoMsg(p, {}) : p \in ForeignPids}

\* another process puts a message into one of the queues
E_Inject ==
    /\ injected < MaxInjected
    /\ mq_linked \/ mq_open = {}
    /\ injected' = injected + 1
    /\ mq_linked' = TRUE
    /\ \/ \E m \in ForeignToUnmount :
             d2u' = Append(d2u, m) /\ UNCHANGED u2d
       \/ \E m \in ForeignToDaemon :
             u2d' = Append(u2d, m) /\ UNCHANGED d2u
    /\ UNCHANGED <<mount_flags, daemon_pid, dalive, host_unmounted,
                   staging_dir, archive, mq_open, upc, unmount_flags, uctx,
                   uret, ulast, dpc, dret, dlog>>
    /\ UNCHANGED fsVars

(***************************************************************************)
(* The mounted image: dentries, inodes, blob descriptors, handles and the  *)
(* staging directory of a read-write mount.                                *)
(***************************************************************************)
\* how many inodes besides the root the image may hold
MaxInodes == 3
\* how many blob descriptors (and staging files) may exist at a time
MaxLtes == 3
\* how many handles may be open on one inode at a time
MaxFds == 2
\* how many handles may be open in all at a time
MaxHandles == 2
\* how many filesystem calls a behaviour may make
MaxCalls == 4
\* how many components a path may have
MaxDepth == 2
\* how long a stream may get
MaxLen == 1
\* how many stream ids inode_add_ads may hand out per inode
MaxStreamId == 2

\* NULL, for a struct lookup_table_entry pointer
NoLte == 0
\* wimlib_fd.staging_fd of a handle that has no staging file descriptor
NoStagingFd == -1
\* the inode of the root dentry; the other inodes are 1 .. MaxInodes
RootIno == 0
\* NULL, for a struct inode pointer
NoIno == -1
\* the stream id of the unnamed stream
UnnamedStreamId == 0

Names == {"x", "y"}
StreamNames == {"s"}
\* the byte ftruncate() extends a file with
ZeroByte == "0"
\* the content of the blob the archive holds
ArchiveContent == <<"a">>
\* what write() is called with
WriteData == {<<"Z">>}
\* what setxattr() is called with
XattrValues == {<<"a">>}
\* what setxattr() followed by getxattr() is tried with: the empty value, the
\* content of the blob of the archive, and another value
RoundTripValues == {<<>>, ArchiveContent, <<"b">>}
\* what symlink() is called with
SymlinkTargets == {<<"t">>}

InoIds == RootIno..MaxInodes
LteIds == 1..MaxLtes
FileIds == 1..MaxLtes
FdSlots == 0..(MaxFds - 1)

Min(a, b) == IF a < b THEN a ELSE b

\* sha1_buffer(): the digest stands for the content it was computed from
Sha1(content) == [kind |-> "sha1", of |-> content]
\* random_hash(): never the digest of any content
RandomHash == [kind |-> "random", of |-> <<>>]
NoHash == [kind |-> "none", of |-> <<>>]

\* a handle slot: inode->fds[i] == NULL, or the struct wimlib_fd it points to
NoHandle ==
    [open |-> FALSE, stream_id |-> UnnamedStreamId, f_lte |-> NoLte,
     staging_fd |-> NoStagingFd, flags |-> "O_RDONLY"]

NewHandle(stream_id, lte, flags) ==
    [open |-> TRUE, stream_id |-> stream_id, f_lte |-> lte,
     staging_fd |-> NoStagingFd, flags |-> flags]

FreeInode ==
    [alloc |-> FALSE, link_count |-> 0, attr |-> "none", lte |-> NoLte,
     ads |-> <<>>, next_stream_id |-> 1,
     fds |-> [i \in FdSlots |-> NoHandle], num_opened_fds |-> 0,
     children |-> {}]

\* new_dentry_with_inode(): one link, no stream, no handle
NewInode(attr) ==
    [FreeInode EXCEPT !.alloc = TRUE, !.link_count = 1, !.attr = attr]

FreeLte ==
    [alloc |-> FALSE, in_table |-> FALSE, refcnt |-> 0, num_opened_fds |-> 0,
     location |-> "none", hash |-> NoHash, content |-> <<>>,
     staging_file |-> 0, lte_inode |-> NoIno]

\* new_lookup_table_entry(): a zeroed descriptor with one reference
NewLookupTableEntry ==
    [FreeLte EXCEPT !.alloc = TRUE, !.refcnt = 1]

NoFile == [exists |-> FALSE, content |-> <<>>]

\* the image as the handlers pass it along; fault is set when a handler
\* hits a failed wimlib_assert or dereferences NULL
FsState == [inodes |-> inodes, ltes |-> ltes, sfiles |-> sfiles,
            staging_list |-> staging_list, fault |-> "none"]

Fault(S, what) == IF S.fault = "none" THEN [S EXCEPT !.fault = what] ELSE S

RemoveFromSeq(seq, x) == SelectSeq(seq, LAMBDA e : e # x)

\* wim_resource_size() of a descriptor
WimResourceSize(S, l) ==
    IF S.ltes[l].location = "in_staging_file"
    THEN Len(S.sfiles[S.ltes[l].staging_file].content)
    ELSE Len(S.ltes[l].content)

\* ftruncate()/truncate(): keep a prefix, or extend with zero bytes
Resize(content, size) ==
    [i \in 1..size |-> IF i <= Len(content) THEN content[i] ELSE ZeroByte]

\* a write that does not seek: the bytes go to the start of the file
WriteAt_AtStart(content, off, bytes) ==
    [i \in 1..(IF Len(bytes) > Len(content) THEN Len(bytes) ELSE Len(content))
        |-> IF i <= Len(bytes) THEN bytes[i] ELSE content[i]]

\* lseek() + write() of bytes at offset off
WriteAt(content, off, bytes) ==
    LET n == IF off + Len(bytes) > Len(content)
             THEN off + Len(bytes) ELSE Len(content)
    IN  [i \in 1..n |->
            IF i > off /\ i <= off + Len(bytes) THEN bytes[i - off]
            ELSE IF i <= Len(content) THEN content[i] ELSE ZeroByte]

\* finalize_lte(): unlink the staging file of a staged descriptor, take it
\* off the staging list, free the descriptor
FinalizeLte(S, l) ==
    LET e == S.ltes[l]
        staged == e.location = "in_staging_file"
    IN  [S EXCEPT
           !.sfiles = IF staged
                      THEN [S.sfiles EXCEPT ![e.staging_file] = NoFile]
                      ELSE S.sfiles,
           !.staging_list = IF staged THEN RemoveFromSeq(S.staging_list, l)
                            ELSE S.staging_list,
           !.ltes = [S.ltes EXCEPT ![l] = FreeLte]]

\* lte_decrement_refcnt(): the descriptor is deleted when no reference and
\* no handle is left; with a handle still open it stays where it is
LteDecrementRefcnt(S, l) ==
    IF ~S.ltes[l].alloc \/ S.ltes[l].refcnt = 0
    THEN Fault(S, "ASSERT")
    ELSE LET S1 == [S EXCEPT !.ltes[l].refcnt = @ - 1]
         IN  IF S1.ltes[l].refcnt = 0 /\ S1.ltes[l].num_opened_fds = 0
             THEN FinalizeLte(S1, l) ELSE S1

\* lte_decrement_num_opened_fds()
LteDecrementNumOpenedFds(S, l) ==
    IF S.ltes[l].num_opened_fds = 0 THEN S
    ELSE LET S1 == [S EXCEPT !.ltes[l].num_opened_fds = @ - 1]
         IN  IF S1.ltes[l].num_opened_fds = 0 /\ S1.ltes[l].refcnt = 0
             THEN FinalizeLte(S1, l) ELSE S1

\* inode_stream_lte_resolved(inode, i), for i = 0 .. num_ads
InodeStreamLte(inode, i) ==
    IF i = 0 THEN inode.lte ELSE inode.ads[i].lte

\* the loop of remove_dentry() over streams i .. num_ads
RECURSIVE DecrementStreams(_, _, _)
DecrementStreams(S, ino, i) ==
    IF i > Len(S.inodes[ino].ads) THEN S
    ELSE LET l == InodeStreamLte(S.inodes[ino], i)
         IN  DecrementStreams(IF l = NoLte THEN S
                              ELSE LteDecrementRefcnt(S, l), ino, i + 1)

\* put_inode() at the end of put_dentry(): free_inode() on the last link
\* when no handle is open
PutInode(S, ino) ==
    LET S1 == [S EXCEPT !.inodes[ino].link_count = @ - 1]
    IN  IF S1.inodes[ino].link_count = 0 /\ S1.inodes[ino].num_opened_fds = 0
        THEN [S1 EXCEPT !.inodes[ino] = FreeInode] ELSE S1

\* unlink_dentry(): take the dentry (parent, name) out of its parent
UnlinkDentry(S, parent, name) ==
    [S EXCEPT !.inodes[parent].children =
                  {c \in @ : c[1] # name}]

\* dentry_add_child()
DentryAddChild(S, parent, name, ino) ==
    [S EXCEPT !.inodes[parent].children = @ \cup {<<name, ino>>}]

\* remove_dentry()
RemoveDentry(S, parent, name, ino) ==
    PutInode(UnlinkDentry(DecrementStreams(S, ino, 0), parent, name), ino)

\* get_dentry_child_with_name()
HasChild(S, dir, name) == \E c \in S.inodes[dir].children : c[1] = name
ChildOf(S, dir, name) ==
    (CHOOSE c \in S.inodes[dir].children : c[1] = name)[2]

IsDirectory(S, ino) == S.inodes[ino].attr = "dir"

\* get_dentry(): walk the components from the root; the dentry found is
\* (parent, name, ino), ino = NoIno when the path does not resolve
RECURSIVE Walk(_, _, _, _)
Walk(S, parent, dir, names) ==
    IF names = <<>> THEN [parent |-> parent, ino |-> dir]
    ELSE IF dir = NoIno \/ ~IsDirectory(S, dir) \/ ~HasChild(S, dir, Head(names))
         THEN [parent |-> dir, ino |-> NoIno]
         ELSE Walk(S, dir, ChildOf(S, dir, Head(names)), Tail(names))

GetDentry(S, names) ==
    LET w == Walk(S, NoIno, RootIno, names)
    IN  [parent |-> w.parent, name |-> names[Len(names)], ino |-> w.ino]

\* get_parent_dentry(): the dentry of the path without its last component
GetParentDentry(S, names) ==
    Walk(S, NoIno, RootIno, SubSeq(names, 1, Len(names) - 1)).ino

\* inode_get_ads_entry(): index of the stream called name, 0 when none
AdsIndex(inode, name) ==
    IF \E i \in 1..Len(inode.ads) : inode.ads[i].name = name
    THEN CHOOSE i \in 1..Len(inode.ads) : inode.ads[i].name = name
    ELSE 0

\* lookup_resource()
LookupResource(S, path, ads_ok, directory_ok) ==
    LET stream == IF ads_ok THEN path.stream ELSE ""
        d == GetDentry(S, path.names)
        none == [ret |-> "-ENOENT", parent |-> NoIno, name |-> "",
                 ino |-> NoIno, lte |-> NoLte, stream_idx |-> 0]
    IN  IF d.ino = NoIno THEN none
        ELSE IF ~directory_ok /\ IsDirectory(S, d.ino)
        THEN [none EXCEPT !.ret = "-EISDIR"]
        ELSE IF stream # ""
        THEN LET i == AdsIndex(S.inodes[d.ino], stream)
             IN  IF i = 0 THEN none
                 ELSE [ret |-> RET_OK, parent |-> d.parent, name |-> d.name,
                       ino |-> d.ino, lte |-> S.inodes[d.ino].ads[i].lte,
                       stream_idx |-> i]
        ELSE [ret |-> RET_OK, parent |-> d.parent, name |-> d.name,
              ino |-> d.ino, lte |-> S.inodes[d.ino].lte, stream_idx |-> 0]

\* the stream id the handlers compute from stream_idx
StreamIdOf(inode, stream_idx) ==
    IF stream_idx = 0 THEN UnnamedStreamId ELSE inode.ads[stream_idx].stream_id

\* inode_add_ads(): a new named stream with no blob
InodeAddAds(S, ino, name) ==
    [S EXCEPT !.inodes[ino].ads =
                  Append(@, [name |-> name,
                             stream_id |-> S.inodes[ino].next_stream_id,
                             lte |-> NoLte]),
              !.inodes[ino].next_stream_id = @ + 1]

\* inode_remove_ads()
InodeRemoveAds(S, ino, idx) ==
    LET l == S.inodes[ino].ads[idx].lte
        S1 == IF l = NoLte THEN S ELSE LteDecrementRefcnt(S, l)
        a == S1.inodes[ino].ads
    IN  [S1 EXCEPT !.inodes[ino].ads =
                      SubSeq(a, 1, idx - 1) \o SubSeq(a, idx + 1, Len(a))]

\* __lookup_resource(): the descriptor in the table with this digest
LookupByHash(S, hash) ==
    IF \E l \in LteIds : S.ltes[l].alloc /\ S.ltes[l].in_table
                         /\ S.ltes[l].hash = hash
    THEN CHOOSE l \in LteIds : S.ltes[l].alloc /\ S.ltes[l].in_table
                               /\ S.ltes[l].hash = hash
    ELSE NoLte

FreeLteIds(S) == {l \in LteIds : ~S.ltes[l].alloc}
FreeInoIds(S) == {i \in InoIds : i # RootIno /\ ~S.inodes[i].alloc}
FreeFileIds(S) == {f \in FileIds : ~S.sfiles[f].exists}
LeastOf(set) == CHOOSE x \in set : \A y \in set : x <= y

(***************************************************************************)
(* Handles                                                                 *)
(***************************************************************************)
FirstFreeSlot(inode) == LeastOf({i \in FdSlots : ~inode.fds[i].open})

\* alloc_wimlib_fd(), past its allocations
AllocWimlibFd(S, ino, stream_id, lte, flags, readonly) ==
    LET i == FirstFreeSlot(S.inodes[ino])
        S1 == [S EXCEPT !.inodes[ino].fds[i] =
                            NewHandle(stream_id, lte, flags),
                        !.inodes[ino].num_opened_fds = @ + 1]
    IN  IF lte # NoLte /\ ~readonly
        THEN [S1 EXCEPT !.ltes[lte].num_opened_fds = @ + 1] ELSE S1

\* LtePutFd that only counts the handle down and never deletes the descriptor
LtePutFd_OnlyCounts(S, ino, i) ==
    LET fd == S.inodes[ino].fds[i]
    IN  IF fd.f_lte = NoLte \/ S.ltes[fd.f_lte].num_opened_fds = 0 THEN S
        ELSE [S EXCEPT !.ltes[fd.f_lte].num_opened_fds = @ - 1]

\* lte_put_fd(); close() of the staging descriptor changes nothing here
LtePutFd(S, ino, i) ==
    LET fd == S.inodes[ino].fds[i]
    IN  IF fd.f_lte = NoLte THEN S ELSE LteDecrementNumOpenedFds(S, fd.f_lte)

\* InodePutFd that never frees the inode
InodePutFd_NeverFrees(S, ino, i) ==
    [S EXCEPT !.inodes[ino].fds[i] = NoHandle,
              !.inodes[ino].num_opened_fds = @ - 1]

\* inode_put_fd()
InodePutFd(S, ino, i) ==
    LET S1 == [S EXCEPT !.inodes[ino].fds[i] = NoHandle,
                        !.inodes[ino].num_opened_fds = @ - 1]
    IN  IF S1.inodes[ino].num_opened_fds = 0 /\ S1.inodes[ino].link_count = 0
        THEN [S1 EXCEPT !.inodes[ino] = FreeInode] ELSE S1

\* close_wimlib_fd()
CloseWimlibFd(S, ino, i) == InodePutFd(LtePutFd(S, ino, i), ino, i)

(***************************************************************************)
(* extract_resource_to_staging_dir()                                       *)
(***************************************************************************)
\* where a call may fail: k is the number of the open() that fails while
\* handles are rebound
StageFailures ==
    {[at |-> a, k |-> 0] :
        a \in {"none", "create", "extract", "alloc", "alloc_fd", "open_fd"}}
    \cup {[at |-> "rebind", k |-> k] : k \in 1..MaxFds}

\* the test that picks the branch: every reference to the descriptor is a
\* link of this inode
CanReuseLte(S, ino, old) ==
    old # NoLte /\ S.inodes[ino].link_count = S.ltes[old].refcnt

\* the loop that rebinds the handles already open on the stream, from slot
\* i on; failed tells that the open() numbered fail_at returned -1
RECURSIVE RebindFds(_, _, _, _, _, _, _, _)
RebindFds(S, ino, i, stream_id, old, new, file, fail_at) ==
    IF i \notin FdSlots THEN [S |-> S, failed |-> FALSE]
    ELSE LET fd == S.inodes[ino].fds[i]
         IN  IF ~fd.open \/ fd.stream_id # stream_id
             THEN RebindFds(S, ino, i + 1, stream_id, old, new, file, fail_at)
             ELSE LET S0 == IF fd.f_lte # old \/ fd.staging_fd # NoStagingFd
                            THEN Fault(S, "ASSERT") ELSE S
                      S1 == [S0 EXCEPT !.inodes[ino].fds[i].f_lte = new,
                                       !.ltes[new].num_opened_fds = @ + 1]
                  IN  IF S1.ltes[new].num_opened_fds = fail_at
                      THEN [S |-> S1, failed |-> TRUE]
                      ELSE RebindFds(
                             [S1 EXCEPT !.inodes[ino].fds[i].staging_fd = file],
                             ino, i + 1, stream_id, old, new, file, fail_at)

\* a revert that gives the handles their old descriptor back but leaves them
\* the staging file descriptors they were given
RevertFdChanges_KeepsStagingFd(fds, stream_id, old, new) ==
    [i \in FdSlots |->
        IF fds[i].open /\ fds[i].stream_id = stream_id /\ fds[i].f_lte = new
        THEN [fds[i] EXCEPT !.f_lte = old]
        ELSE fds[i]]

\* out_revert_fd_changes: the handles that were rebound
RevertFdChanges(fds, stream_id, old, new) ==
    [i \in FdSlots |->
        IF fds[i].open /\ fds[i].stream_id = stream_id /\ fds[i].f_lte = new
        THEN [fds[i] EXCEPT !.f_lte = old, !.staging_fd = NoStagingFd]
        ELSE fds[i]]

\* a split that leaves the rebound handles counted on the old descriptor
SplitOldLte_KeepsFdCount(e, link_count, rebound) ==
    [e EXCEPT !.refcnt = @ - link_count]

\* a split that forgets the references the inode gives up
SplitOldLte_KeepsRefcnt(e, link_count, rebound) ==
    [e EXCEPT !.num_opened_fds = @ - rebound]

\* what the split leaves on the old descriptor
SplitOldLte(e, link_count, rebound) ==
    [e EXCEPT !.num_opened_fds = @ - rebound, !.refcnt = @ - link_count]

\* the fields set on the staged descriptor
StageLte(e, link_count, file, ino) ==
    [e EXCEPT !.refcnt = link_count, !.location = "in_staging_file",
              !.staging_file = file, !.lte_inode = ino, !.hash = RandomHash]

\* the stream of the inode is pointed at the staged descriptor
InodeSetStreamLte(inode, stream_id, l) ==
    IF stream_id = UnnamedStreamId THEN [inode EXCEPT !.lte = l]
    ELSE [inode EXCEPT !.ads =
             [i \in 1..Len(inode.ads) |->
                 IF inode.ads[i].stream_id = stream_id
                 THEN [inode.ads[i] EXCEPT !.lte = l] ELSE inode.ads[i]]]

\* the end of a successful call
FinishStaging(S, ino, stream_id, new, file) ==
    LET S1 == [S EXCEPT !.ltes[new] =
                            StageLte(@, S.inodes[ino].link_count, file, ino)]
        S2 == [S1 EXCEPT !.inodes[ino] = InodeSetStreamLte(@, stream_id, new)]
    IN  [S2 EXCEPT !.ltes[new].in_table = TRUE,
                   !.staging_list = <<new>> \o @]

StageResult(S, ret, lte, branch) ==
    [S |-> S, ret |-> ret, lte |-> lte, branch |-> branch]

ExtractResourceToStagingDir(S, ino, stream_id, old, size, fail) ==
    LET file == LeastOf(FreeFileIds(S))
        link_count == S.inodes[ino].link_count
        extract_size == IF old # NoLte
                        THEN Min(WimResourceSize(S, old), size) ELSE 0
        data == IF old # NoLte
                THEN SubSeq(S.ltes[old].content, 1, extract_size) ELSE <<>>
        filled == IF size > extract_size THEN Resize(data, size) ELSE data
        S1 == [S EXCEPT !.sfiles[file] = [exists |-> TRUE, content |-> filled]]
        new == LeastOf(FreeLteIds(S1))
        S2 == [S1 EXCEPT !.ltes[new] = NewLookupTableEntry]
        rb == RebindFds(S2, ino, 0, stream_id, old, new, file, fail.k)
        reverted == [rb.S EXCEPT
                       !.inodes[ino].fds =
                           RevertFdChanges(@, stream_id, old, new),
                       !.ltes[new] = FreeLte,
                       !.sfiles[file] = NoFile]
        split == IF old # NoLte
                 THEN [rb.S EXCEPT !.ltes[old] =
                          SplitOldLte(@, link_count,
                                      rb.S.ltes[new].num_opened_fds)]
                 ELSE rb.S
    IN  IF old # NoLte /\ S.ltes[old].location = "in_staging_file"
        THEN StageResult(Fault(S, "ASSERT"), "ASSERT", old, "none")
        ELSE IF fail.at = "create"
        THEN StageResult(S, "-EACCES", old, "failed")
        ELSE IF fail.at = "extract"
        THEN StageResult([S1 EXCEPT !.sfiles[file] = NoFile], "-EIO", old,
                         "failed")
        ELSE IF CanReuseLte(S, ino, old)
        THEN StageResult(
               FinishStaging([S1 EXCEPT !.ltes[old].in_table = FALSE],
                             ino, stream_id, old, file),
               RET_OK, old, "reuse")
        ELSE IF old # NoLte /\ ~(S.ltes[old].refcnt > link_count)
        THEN StageResult(Fault(S1, "ASSERT"), "ASSERT", old, "none")
        ELSE IF fail.at = "alloc"
        THEN StageResult([S1 EXCEPT !.sfiles[file] = NoFile], "-ENOMEM", old,
                         "failed")
        ELSE IF rb.S.fault # "none"
        THEN StageResult(rb.S, "ASSERT", old, "none")
        ELSE IF rb.failed
        THEN StageResult(reverted, "-EMFILE", old, "failed")
        ELSE StageResult(FinishStaging(split, ino, stream_id, new, file),
                         RET_OK, new, IF old = NoLte THEN "new" ELSE "split")

(***************************************************************************)
(* The filesystem calls.  Each one gives the image it leaves, what it      *)
(* returns, and which inode and stream it was about.                       *)
(***************************************************************************)
Out(S, ret, ino, stream_id, branch, old) ==
    [S |-> S, ret |-> ret, ino |-> ino, sid |-> stream_id,
     branch |-> branch, old |-> old]

Err(S, ret) == Out(S, ret, NoIno, UnnamedStreamId, "none", NoLte)

IsStaged(S, l) == l # NoLte /\ S.ltes[l].location = "in_staging_file"

\* the access modes open() is called with
OpenFlags == {"O_RDONLY", "O_WRONLY", "O_RDWR"}

\* flags_writable()
FlagsWritable(flags) == flags \in {"O_RDWR", "O_WRONLY"}

\* wimfs_open(); the handle keeps the access mode, which is the one its
\* staging file descriptor is opened with
WimfsOpen(S, path, ads_ok, readonly, flags, fail) ==
    LET r == LookupResource(S, path, ads_ok, FALSE)
        sid == StreamIdOf(S.inodes[r.ino], r.stream_idx)
        x == IF FlagsWritable(flags) /\ ~IsStaged(S, r.lte)
             THEN ExtractResourceToStagingDir(S, r.ino, sid, r.lte,
                      IF r.lte # NoLte THEN WimResourceSize(S, r.lte) ELSE 0,
                      fail)
             ELSE StageResult(S, RET_OK, r.lte, "none")
        slot == FirstFreeSlot(x.S.inodes[r.ino])
        S1 == AllocWimlibFd(x.S, r.ino, sid, x.lte, flags, readonly)
    IN  IF r.ret # RET_OK THEN Err(S, r.ret)
        ELSE IF x.ret # RET_OK
        THEN Out(x.S, x.ret, r.ino, sid, x.branch, r.lte)
        ELSE IF fail.at = "alloc_fd"
        THEN Out(x.S, "-ENOMEM", r.ino, sid, x.branch, r.lte)
        ELSE IF IsStaged(S1, x.lte)
        THEN IF fail.at = "open_fd"
             THEN Out(CloseWimlibFd(S1, r.ino, slot), "-EMFILE", r.ino, sid,
                      x.branch, r.lte)
             ELSE Out([S1 EXCEPT !.inodes[r.ino].fds[slot].staging_fd =
                                     S1.ltes[x.lte].staging_file],
                      RET_OK, r.ino, sid, x.branch, r.lte)
        ELSE Out(S1, RET_OK, r.ino, sid, x.branch, r.lte)

\* wimfs_release()
\* WimfsRelease that frees the slot without lte_put_fd()
WimfsRelease_SkipsLtePutFd(S, ino, slot) ==
    Out(InodePutFd(S, ino, slot), RET_OK, ino,
        S.inodes[ino].fds[slot].stream_id, "none",
        S.inodes[ino].fds[slot].f_lte)

WimfsRelease(S, ino, slot) ==
    Out(CloseWimlibFd(S, ino, slot), RET_OK, ino,
        S.inodes[ino].fds[slot].stream_id, "none",
        S.inodes[ino].fds[slot].f_lte)

\* read() of size bytes at offset off of a file: the bytes there are
\* a read that ignores the offset
ReadAt_FromStart(content, off, size) ==
    SubSeq(content, 1, Min(size, Len(content)))

ReadAt(content, off, size) ==
    SubSeq(content, off + 1, Min(off + size, Len(content)))

\* wimfs_read(): what it returns and the bytes it leaves in the buffer; a
\* staging file descriptor opened O_WRONLY cannot be read
WimfsRead(S, ino, slot, off, size, eio) ==
    LET fd == S.inodes[ino].fds[slot]
        none == [ret |-> RET_OK, data |-> <<>>]
    IN  IF fd.f_lte = NoLte THEN none
        ELSE IF IsStaged(S, fd.f_lte)
        THEN IF fd.staging_fd = NoStagingFd
             THEN [none EXCEPT !.ret = "ASSERT"]
             ELSE IF fd.flags = "O_WRONLY"
             THEN [none EXCEPT !.ret = "-EBADF"]
             ELSE [none EXCEPT
                      !.data = ReadAt(S.sfiles[fd.staging_fd].content, off,
                                      size)]
        ELSE IF off > WimResourceSize(S, fd.f_lte)
        THEN [none EXCEPT !.ret = "-EOVERFLOW"]
        ELSE IF eio
        THEN [none EXCEPT !.ret = "-EIO"]
        ELSE [none EXCEPT !.data = ReadAt(S.ltes[fd.f_lte].content, off, size)]

\* wimfs_write()
WimfsWrite(S, ino, slot, off, bytes) ==
    LET fd == S.inodes[ino].fds[slot]
    IN  IF fd.f_lte = NoLte \/ ~IsStaged(S, fd.f_lte)
           \/ fd.staging_fd = NoStagingFd
        THEN Out(Fault(S, "ASSERT"), "ASSERT", ino, fd.stream_id, "none",
                 fd.f_lte)
        ELSE Out([S EXCEPT !.sfiles[fd.staging_fd].content =
                               WriteAt(@, off, bytes)],
                 RET_OK, ino, fd.stream_id, "none", fd.f_lte)

\* wimfs_truncate()
WimfsTruncate(S, path, ads_ok, size, fail) ==
    LET r == LookupResource(S, path, ads_ok, FALSE)
        sid == StreamIdOf(S.inodes[r.ino], r.stream_idx)
        x == ExtractResourceToStagingDir(S, r.ino, sid, r.lte, size, fail)
    IN  IF r.ret # RET_OK THEN Err(S, r.ret)
        ELSE IF r.lte = NoLte /\ size = 0
        THEN Out(S, RET_OK, r.ino, sid, "none", r.lte)
        ELSE IF r.lte = NoLte
        THEN Out(Fault(S, "SIGSEGV"), "SIGSEGV", r.ino, sid, "none", r.lte)
        ELSE IF IsStaged(S, r.lte)
        THEN Out([S EXCEPT !.sfiles[S.ltes[r.lte].staging_file].content =
                               Resize(@, size)],
                 RET_OK, r.ino, sid, "none", r.lte)
        ELSE Out(x.S, x.ret, r.ino, sid, x.branch, r.lte)

\* create_dentry()
CreateDentry(S, names, attr) ==
    LET parent == GetParentDentry(S, names)
        name == names[Len(names)]
        ino == LeastOf(FreeInoIds(S))
    IN  IF parent = NoIno THEN Err(S, "-ENOENT")
        ELSE IF ~IsDirectory(S, parent) THEN Err(S, "-ENOTDIR")
        ELSE IF HasChild(S, parent, name) THEN Err(S, "-EEXIST")
        ELSE Out(DentryAddChild([S EXCEPT !.inodes[ino] = NewInode(attr)],
                                parent, name, ino),
                 RET_OK, ino, UnnamedStreamId, "none", NoLte)

\* wimfs_mkdir()
WimfsMkdir(S, names) == CreateDentry(S, names, "dir")

\* wimfs_mknod(): with the WINDOWS stream interface a path that names a
\* stream makes an alternate data stream
WimfsMknod(S, path, windows) ==
    LET ino == GetDentry(S, path.names).ino
    IN  IF windows /\ path.stream # ""
        THEN IF ino = NoIno THEN Err(S, "-ENOENT")
             ELSE IF S.inodes[ino].attr \in {"dir", "symlink"}
             THEN Err(S, "-ENOENT")
             ELSE IF AdsIndex(S.inodes[ino], path.stream) # 0
             THEN Err(S, "-EEXIST")
             ELSE Out(InodeAddAds(S, ino, path.stream), RET_OK, ino,
                      S.inodes[ino].next_stream_id, "none", NoLte)
        ELSE CreateDentry(S, path.names, "file")

\* inode_set_symlink(): the target is kept in a blob of its own
InodeSetSymlink(S, ino, target) ==
    LET existing == LookupByHash(S, Sha1(target))
        new == LeastOf(FreeLteIds(S))
    IN  IF existing # NoLte
        THEN [S EXCEPT !.ltes[existing].refcnt = @ + 1,
                       !.inodes[ino].lte = existing]
        ELSE [S EXCEPT !.ltes[new] =
                          [NewLookupTableEntry EXCEPT
                              !.location = "in_attached_buffer",
                              !.content = target, !.hash = Sha1(target),
                              !.in_table = TRUE],
                       !.inodes[ino].lte = new]

\* wimfs_symlink()
WimfsSymlink(S, target, names) ==
    LET c == CreateDentry(S, names, "symlink")
    IN  IF c.ret # RET_OK THEN c
        ELSE [c EXCEPT !.S = InodeSetSymlink(c.S, c.ino, target)]

\* a loop that counts the new link on the unnamed stream only
IncrementStreams_UnnamedOnly(S, ino, i) ==
    LET l == InodeStreamLte(S.inodes[ino], 0)
    IN  IF l = NoLte THEN S ELSE [S EXCEPT !.ltes[l].refcnt = @ + 1]

\* the loop of wimfs_link() over streams i .. num_ads
RECURSIVE IncrementStreams(_, _, _)
IncrementStreams(S, ino, i) ==
    IF i > Len(S.inodes[ino].ads) THEN S
    ELSE LET l == InodeStreamLte(S.inodes[ino], i)
         IN  IncrementStreams(IF l = NoLte THEN S
                              ELSE [S EXCEPT !.ltes[l].refcnt = @ + 1],
                              ino, i + 1)

\* wimfs_link(): to is the existing file, from the new name
WimfsLink(S, to, from) ==
    LET ino == GetDentry(S, to).ino
        parent == GetParentDentry(S, from)
        name == from[Len(from)]
        S1 == [S EXCEPT !.inodes[ino].link_count = @ + 1]
    IN  IF ino = NoIno THEN Err(S, "-ENOENT")
        ELSE IF S.inodes[ino].attr = "symlink" THEN Err(S, "-EEXIST")
        ELSE IF S.inodes[ino].attr = "dir" THEN Err(S, "-EPERM")
        ELSE IF parent = NoIno THEN Err(S, "-ENOENT")
        ELSE IF ~IsDirectory(S, parent) THEN Err(S, "-ENOTDIR")
        ELSE IF HasChild(S, parent, name) THEN Err(S, "-EEXIST")
        ELSE Out(DentryAddChild(IncrementStreams(S1, ino, 0), parent, name,
                                ino),
                 RET_OK, ino, UnnamedStreamId, "none", NoLte)

\* wimfs_unlink()
WimfsUnlink(S, path, ads_ok) ==
    LET r == LookupResource(S, path, ads_ok, FALSE)
    IN  IF r.ret # RET_OK THEN Err(S, r.ret)
        ELSE IF r.stream_idx = 0
        THEN Out(RemoveDentry(S, r.parent, r.name, r.ino), RET_OK, r.ino,
                 UnnamedStreamId, "none", r.lte)
        ELSE Out(InodeRemoveAds(S, r.ino, r.stream_idx), RET_OK, r.ino,
                 StreamIdOf(S.inodes[r.ino], r.stream_idx), "none", r.lte)

\* wimfs_rmdir()
\* wimfs_rmdir without the test for children
WimfsRmdir_IgnoresChildren(S, names) ==
    LET d == GetDentry(S, names)
    IN  IF d.ino = NoIno THEN Err(S, "-ENOENT")
        ELSE Out(RemoveDentry(S, d.parent, d.name, d.ino), RET_OK, d.ino,
                 UnnamedStreamId, "none", NoLte)

WimfsRmdir(S, names) ==
    LET d == GetDentry(S, names)
    IN  IF d.ino = NoIno THEN Err(S, "-ENOENT")
        ELSE IF ~(IsDirectory(S, d.ino) /\ S.inodes[d.ino].children = {})
        THEN Err(S, "-ENOTEMPTY")
        ELSE Out(RemoveDentry(S, d.parent, d.name, d.ino), RET_OK, d.ino,
                 UnnamedStreamId, "none", NoLte)

\* wimfs_rename()
WimfsRename(S, from, to) ==
    LET src == GetDentry(S, from)
        dst == GetDentry(S, to)
        to_name == to[Len(to)]
        parent_of_dst == IF dst.ino # NoIno THEN dst.parent
                         ELSE GetParentDentry(S, to)
        S1 == IF dst.ino # NoIno
              THEN RemoveDentry(S, dst.parent, dst.name, dst.ino) ELSE S
        S2 == DentryAddChild(UnlinkDentry(S1, src.parent, src.name),
                             parent_of_dst, to_name, src.ino)
    IN  IF src.ino = NoIno THEN Err(S, "-ENOENT")
        ELSE IF dst.ino # NoIno /\ src.parent = dst.parent
                /\ src.name = dst.name
        THEN Out(S, RET_OK, src.ino, UnnamedStreamId, "none", NoLte)
        ELSE IF dst.ino # NoIno /\ ~IsDirectory(S, src.ino)
                /\ IsDirectory(S, dst.ino)
        THEN Err(S, "-EISDIR")
        ELSE IF dst.ino # NoIno /\ IsDirectory(S, src.ino)
                /\ ~IsDirectory(S, dst.ino)
        THEN Err(S, "-ENOTDIR")
        ELSE IF dst.ino # NoIno /\ IsDirectory(S, src.ino)
                /\ S.inodes[dst.ino].children # {}
        THEN Err(S, "-ENOTEMPTY")
        ELSE IF dst.ino = NoIno /\ parent_of_dst = NoIno
        THEN Err(S, "-ENOENT")
        ELSE IF dst.ino = NoIno /\ ~IsDirectory(S, parent_of_dst)
        THEN Err(S, "-ENOTDIR")
        ELSE Out(S2, RET_OK, src.ino, UnnamedStreamId, "none", NoLte)

\* the reference wimfs_setxattr() takes on a descriptor that already holds
\* the value
TakeExistingLte(e) == [e EXCEPT !.refcnt = @ + 1]

\* wimfs_setxattr(); flags is "none", "CREATE" or "REPLACE"
WimfsSetxattr(S, names, name, value, flags, fail) ==
    LET ino == GetDentry(S, names).ino
        idx == AdsIndex(S.inodes[ino], name)
        S1 == IF idx # 0 THEN InodeRemoveAds(S, ino, idx) ELSE S
        sid == S1.inodes[ino].next_stream_id
        S2 == InodeAddAds(S1, ino, name)
        existing == LookupByHash(S2, Sha1(value))
        new == LeastOf(FreeLteIds(S2))
        lte == IF existing # NoLte THEN existing ELSE new
        S3 == IF existing # NoLte
              THEN [S2 EXCEPT !.ltes[existing] = TakeExistingLte(@)]
              ELSE [S2 EXCEPT !.ltes[new] =
                       [NewLookupTableEntry EXCEPT
                           !.location = "in_attached_buffer",
                           !.content = value, !.hash = Sha1(value),
                           !.in_table = TRUE]]
        S4 == [S3 EXCEPT !.inodes[ino].ads[Len(S3.inodes[ino].ads)].lte = lte]
    IN  IF ino = NoIno THEN Err(S, "-ENOENT")
        ELSE IF idx # 0 /\ flags = "CREATE" THEN Err(S, "-EEXIST")
        ELSE IF idx = 0 /\ flags = "REPLACE" THEN Err(S, "-ENOATTR")
        ELSE IF S1.fault # "none"
        THEN Out(S1, S1.fault, ino, sid, "none", NoLte)
        ELSE IF existing = NoLte /\ fail.at = "alloc"
        THEN Out(S2, "-ENOMEM", ino, sid, "none", NoLte)
        ELSE Out(S4, RET_OK, ino, sid, "none", existing)

\* wimfs_removexattr()
WimfsRemovexattr(S, names, name) ==
    LET ino == GetDentry(S, names).ino
        idx == AdsIndex(S.inodes[ino], name)
    IN  IF ino = NoIno THEN Err(S, "-ENOENT")
        ELSE IF idx = 0 THEN Err(S, "-ENOATTR")
        ELSE Out(InodeRemoveAds(S, ino, idx), RET_OK, ino,
                 S.inodes[ino].ads[idx].stream_id, "none",
                 S.inodes[ino].ads[idx].lte)

\* read_full_wim_resource(): the whole content of a descriptor
ReadFullWimResource(S, l) ==
    IF S.ltes[l].location = "in_staging_file"
    THEN S.sfiles[S.ltes[l].staging_file].content
    ELSE S.ltes[l].content

\* WimfsGetxattr that rejects a value that fills the buffer exactly
WimfsGetxattr_RejectsExactFit(S, names, name, size) ==
    LET ino == GetDentry(S, names).ino
        idx == AdsIndex(S.inodes[ino], name)
        lte == S.inodes[ino].ads[idx].lte
        res_size == WimResourceSize(S, lte)
        none == [ret |-> "-ENOENT", size |-> 0, data |-> <<>>]
    IN  IF ino = NoIno THEN none
        ELSE IF idx = 0 THEN [none EXCEPT !.ret = "-ENOATTR"]
        ELSE IF lte = NoLte THEN [none EXCEPT !.ret = "SIGSEGV"]
        ELSE IF size = 0 THEN [none EXCEPT !.ret = RET_OK, !.size = res_size]
        ELSE IF res_size >= size THEN [none EXCEPT !.ret = "-ERANGE"]
        ELSE [ret |-> RET_OK, size |-> res_size,
              data |-> ReadFullWimResource(S, lte)]

\* wimfs_getxattr() with a buffer of size bytes: what it returns, and what it
\* leaves in the buffer
WimfsGetxattr(S, names, name, size) ==
    LET ino == GetDentry(S, names).ino
        idx == AdsIndex(S.inodes[ino], name)
        lte == S.inodes[ino].ads[idx].lte
        res_size == WimResourceSize(S, lte)
        none == [ret |-> "-ENOENT", size |-> 0, data |-> <<>>]
    IN  IF ino = NoIno THEN none
        ELSE IF idx = 0 THEN [none EXCEPT !.ret = "-ENOATTR"]
        ELSE IF lte = NoLte THEN [none EXCEPT !.ret = "SIGSEGV"]
        ELSE IF size = 0 THEN [none EXCEPT !.ret = RET_OK, !.size = res_size]
        ELSE IF res_size > size THEN [none EXCEPT !.ret = "-ERANGE"]
        ELSE [ret |-> RET_OK, size |-> res_size,
              data |-> ReadFullWimResource(S, lte)]

(***************************************************************************)
(* The filesystem calls as actions                                         *)
(***************************************************************************)
\* LOOKUP_FLAG_ADS_OK is the default lookup flag of a WINDOWS-interface mount
AdsOk == "WINDOWS" \in mount_flags
XattrInterface == "XATTR" \in mount_flags
\* wimfs_ctx_readonly()
WimfsCtxReadonly == "READWRITE" \notin mount_flags

\* the names of the directories in the root
DirNames ==
    {d \in Names : /\ HasChild(FsState, RootIno, d)
                   /\ IsDirectory(FsState, ChildOf(FsState, RootIno, d))}

\* the paths the calls are made with: a name in the root, or a name in a
\* directory that exists in the root
NameSeqs ==
    {<<n>> : n \in Names}
    \cup (IF MaxDepth >= 2
          THEN {<<d, n>> : d \in DirNames, n \in Names} ELSE {})
\* the paths the calls are made with; a stream is named only where the
\* mount resolves stream names
Paths ==
    {[names |-> n, stream |-> s] :
        n \in NameSeqs,
        s \in IF AdsOk THEN StreamNames \cup {""} ELSE {""}}

\* a stream or a handle still refers to a descriptor that has been freed
DanglingRef ==
    \E i \in InoIds :
        /\ inodes[i].alloc
        /\ \/ \E k \in 0..Len(inodes[i].ads) :
                 LET l == InodeStreamLte(inodes[i], k)
                 IN  l # NoLte /\ ~ltes[l].alloc
           \/ \E k \in FdSlots :
                 /\ inodes[i].fds[k].open
                 /\ inodes[i].fds[k].f_lte # NoLte
                 /\ ~ltes[inodes[i].fds[k].f_lte].alloc

\* the daemon serves calls: it is mounted, it has not aborted, and no call
\* would read freed memory
Serving ==
    /\ dpc = "mounted"
    /\ fslast.ret \notin {"ASSERT", "SIGSEGV"}
    /\ fslast.n < MaxCalls

FsAlive == Serving /\ ~DanglingRef

NoCall ==
    [n |-> 0, op |-> "none", ret |-> RET_OK, ino |-> NoIno,
     sid |-> UnnamedStreamId, branch |-> "none", old |-> NoLte]

\* what is remembered of a call: how many calls there were, and
\*  - of a call that went into staging: its name, what it returned, the
\*    inode, the stream, the descriptor the stream had, how the staging ended;
\*  - of another call that returned 0: its name;
\*  - of another call that returned an error: that it did ("error")
LastCall(op, r) ==
    IF r.branch # "none"
    THEN [n |-> fslast.n + 1, op |-> op, ret |-> r.ret, ino |-> r.ino,
          sid |-> r.sid, branch |-> r.branch, old |-> r.old]
    ELSE IF r.ret = RET_OK
    THEN [NoCall EXCEPT !.n = fslast.n + 1, !.op = op]
    ELSE [NoCall EXCEPT !.n = fslast.n + 1, !.op = "call",
                        !.ret = IF r.ret \in {"ASSERT", "SIGSEGV"}
                                THEN r.ret ELSE "error"]

\* the call op ends as r says; a call that aborts the daemon leaves the image
\* as it found it
FsCall(op, r) ==
    /\ IF r.S.fault # "none"
       THEN /\ UNCHANGED <<inodes, ltes, sfiles, staging_list>>
            /\ fslast' = [LastCall(op, r) EXCEPT !.ret = r.S.fault]
       ELSE /\ inodes' = r.S.inodes
            /\ ltes' = r.S.ltes
            /\ sfiles' = r.S.sfiles
            /\ staging_list' = r.S.staging_list
            /\ fslast' = LastCall(op, r)
    /\ UNCHANGED <<protoVars, tableVars>>

\* the model has room for what a staging may allocate
RoomToStage == FreeFileIds(FsState) # {} /\ FreeLteIds(FsState) # {}

OpenHandles == {h \in InoIds \X FdSlots :
                   inodes[h[1]].alloc /\ inodes[h[1]].fds[h[2]].open}

\* the kernel resolves symbolic links itself and passes their targets
NotSymlink(r) == r.ret = RET_OK => inodes[r.ino].attr # "symlink"
HasFreeSlot(r) ==
    /\ r.ret = RET_OK => \E k \in FdSlots : ~inodes[r.ino].fds[k].open
    /\ Cardinality(OpenHandles) < MaxHandles

\* wimfs_open() without write access of a stream whose descriptor has been
\* freed: alloc_wimlib_fd() stores the stale pointer in the handle and counts
\* the handle in freed memory, which either is lost or ends the daemon
OpenFreedLte(S, r, crash) ==
    LET sid == StreamIdOf(S.inodes[r.ino], r.stream_idx)
        slot == FirstFreeSlot(S.inodes[r.ino])
    IN  IF crash
        THEN Out(Fault(S, "SIGSEGV"), "SIGSEGV", r.ino, sid, "none", r.lte)
        ELSE Out([S EXCEPT !.inodes[r.ino].fds[slot] =
                               NewHandle(sid, r.lte, "O_RDONLY"),
                           !.inodes[r.ino].num_opened_fds = @ + 1],
                 RET_OK, r.ino, sid, "none", r.lte)

\* the failure is one the call can meet: the staging runs, it gets as far
\* as the failing step, and the stream has that many handles to rebind
FailureCanHappen(r, fail) ==
    \/ fail.at \in {"none", "alloc_fd", "open_fd"}
    \/ /\ r.ret = RET_OK
       /\ ~IsStaged(FsState, r.lte)
       /\ fail.at \in {"alloc", "rebind"} => ~CanReuseLte(FsState, r.ino, r.lte)
       /\ fail.at = "rebind" =>
             fail.k <= Cardinality(
                 {i \in FdSlots :
                     /\ inodes[r.ino].fds[i].open
                     /\ inodes[r.ino].fds[i].stream_id =
                            StreamIdOf(inodes[r.ino], r.stream_idx)})

Open ==
    /\ Serving /\ RoomToStage
    /\ \E path \in Paths :
        LET r == LookupResource(FsState, path, AdsOk, FALSE)
            freed == r.ret = RET_OK /\ r.lte # NoLte /\ ~ltes[r.lte].alloc
        IN  /\ DanglingRef => freed
            /\ NotSymlink(r) /\ HasFreeSlot(r)
            /\ \E flags \in OpenFlags, fail \in StageFailures,
                  crash \in BOOLEAN :
                /\ fail.at \notin {"none", "alloc_fd"} => FlagsWritable(flags)
                \* a call that fails in the lookup is the same whatever its
                \* flags
                /\ r.ret # RET_OK => flags = "O_RDONLY" /\ fail.at = "none"
                /\ freed => flags = "O_RDONLY" /\ fail.at = "none"
                /\ crash => freed
                /\ FailureCanHappen(r, fail)
                /\ FsCall("open",
                          IF freed THEN OpenFreedLte(FsState, r, crash)
                          ELSE WimfsOpen(FsState, path, AdsOk,
                                         WimfsCtxReadonly, flags, fail))

Release ==
    \E h \in OpenHandles :
        /\ FsAlive
        /\ FsCall("release", WimfsRelease(FsState, h[1], h[2]))

Read ==
    \E h \in OpenHandles, eio \in BOOLEAN :
        /\ FsAlive
        /\ fslast' = LastCall("read",
                        Err(FsState, WimfsRead(FsState, h[1], h[2], 0,
                                               MaxLen, eio).ret))
        /\ UNCHANGED <<inodes, ltes, sfiles, staging_list, protoVars,
                       tableVars>>

Write ==
    \E h \in OpenHandles, off \in 0..(MaxLen - 1), bytes \in WriteData :
        /\ FsAlive
        /\ FlagsWritable(inodes[h[1]].fds[h[2]].flags)
        /\ off + Len(bytes) <= MaxLen
        /\ FsCall("write", WimfsWrite(FsState, h[1], h[2], off, bytes))

Truncate ==
    /\ FsAlive /\ RoomToStage
    /\ \E path \in Paths :
        LET r == LookupResource(FsState, path, AdsOk, FALSE)
        IN  /\ NotSymlink(r)
            /\ \E size \in 0..MaxLen,
                  fail \in {f \in StageFailures :
                               f.at \notin {"alloc_fd", "open_fd"}} :
                \* a call that fails in the lookup is the same whatever its
                \* size
                /\ r.ret # RET_OK => size = 0 /\ fail.at = "none"
                /\ fail.at # "none" => r.lte # NoLte
                /\ FailureCanHappen(r, fail)
                /\ FsCall("truncate",
                          WimfsTruncate(FsState, path, AdsOk, size, fail))

Mkdir ==
    \E names \in NameSeqs :
        /\ FsAlive /\ FreeInoIds(FsState) # {}
        /\ FsCall("mkdir", WimfsMkdir(FsState, names))

Mknod ==
    \E path \in Paths :
        /\ FsAlive /\ FreeInoIds(FsState) # {}
        /\ LET ino == GetDentry(FsState, path.names).ino
           IN  ino # NoIno => inodes[ino].next_stream_id <= MaxStreamId
        /\ FsCall("mknod", WimfsMknod(FsState, path,
                                      "WINDOWS" \in mount_flags))

Symlink ==
    \E target \in SymlinkTargets, names \in NameSeqs :
        /\ FsAlive /\ FreeInoIds(FsState) # {} /\ FreeLteIds(FsState) # {}
        /\ FsCall("symlink", WimfsSymlink(FsState, target, names))

Link ==
    \E to \in NameSeqs, from \in NameSeqs :
        /\ FsAlive
        /\ FsCall("link", WimfsLink(FsState, to, from))

Unlink ==
    \E path \in Paths :
        /\ FsAlive
        /\ FsCall("unlink", WimfsUnlink(FsState, path, AdsOk))

Rmdir ==
    \E names \in NameSeqs :
        /\ FsAlive
        /\ FsCall("rmdir", WimfsRmdir(FsState, names))

\* the kernel refuses to move a directory into itself
IntoItself(from, to) ==
    Len(from) < Len(to) /\ SubSeq(to, 1, Len(from)) = from

Rename ==
    \E from \in NameSeqs, to \in NameSeqs :
        /\ FsAlive
        /\ ~IntoItself(from, to)
        /\ FsCall("rename", WimfsRename(FsState, from, to))

Setxattr ==
    \E names \in NameSeqs, name \in StreamNames, value \in XattrValues,
       flags \in {"none", "CREATE", "REPLACE"},
       fail \in {f \in StageFailures : f.at \in {"none", "alloc"}} :
        LET ino == GetDentry(FsState, names).ino
        IN  /\ FsAlive /\ FreeLteIds(FsState) # {}
            /\ ino # NoIno => inodes[ino].next_stream_id <= MaxStreamId
            /\ fail.at # "none" => ino # NoIno /\ flags = "none"
            /\ FsCall("setxattr",
                      IF ~XattrInterface THEN Err(FsState, "-ENOTSUP")
                      ELSE WimfsSetxattr(FsState, names, name, value, flags,
                                         fail))

Removexattr ==
    \E names \in NameSeqs, name \in StreamNames :
        /\ FsAlive
        /\ FsCall("removexattr",
                  IF ~XattrInterface THEN Err(FsState, "-ENOTSUP")
                  ELSE WimfsRemovexattr(FsState, names, name))

(***************************************************************************)
(* The image the archive holds when it is mounted                          *)
(***************************************************************************)
(***************************************************************************)
(* The table of handles of one inode at its real size: alloc_wimlib_fd and *)
(* inode_put_fd on the counters num_opened_fds and num_allocated_fds       *)
(* (16 bits each) and on the set of slots that hold NULL                   *)
(***************************************************************************)
fds_per_alloc == 8
max_fds == 65535
U16 == 65536

\* the table before the first open: no slot allocated
NoTable ==
    [num_allocated_fds |-> 0, num_opened_fds |-> 0, null_slots |-> {},
     lte_opened_fds |-> 0, call |-> "none", ret |-> RET_OK, idx |-> 0]

AllocFailures == {"none", "realloc", "calloc"}

\* alloc_wimlib_fd with a table that grows past max_fds
AllocWimlibFdInTable_GrowsPastCap(t, has_lte, readonly, fail) ==
    LET full == t.num_opened_fds = t.num_allocated_fds
        num_new_fds == IF full THEN fds_per_alloc ELSE 0
        allocated == (t.num_allocated_fds + num_new_fds) % U16
        nulls == t.null_slots
                 \cup (t.num_allocated_fds..(t.num_allocated_fds
                                             + num_new_fds - 1))
        i == LeastOf(nulls)
        grown == [t EXCEPT !.num_allocated_fds = allocated,
                           !.null_slots = nulls, !.call = "alloc"]
    IN  IF full /\ fail = "realloc"
        THEN [t EXCEPT !.call = "alloc", !.ret = "-ENOMEM"]
        ELSE IF fail = "calloc"
        THEN [grown EXCEPT !.ret = "-ENOMEM"]
        ELSE [grown EXCEPT
                !.null_slots = nulls \ {i},
                !.num_opened_fds = (@ + 1) % U16,
                !.lte_opened_fds = IF has_lte /\ ~readonly
                                   THEN (@ + 1) % U16 ELSE @,
                !.ret = RET_OK, !.idx = i]

AllocWimlibFdInTable(t, has_lte, readonly, fail) ==
    LET full == t.num_opened_fds = t.num_allocated_fds
        num_new_fds == IF full
                       THEN Min(fds_per_alloc, max_fds - t.num_allocated_fds)
                       ELSE 0
        allocated == (t.num_allocated_fds + num_new_fds) % U16
        nulls == t.null_slots
                 \cup (t.num_allocated_fds..(t.num_allocated_fds
                                             + num_new_fds - 1))
        i == LeastOf(nulls)
        grown == [t EXCEPT !.num_allocated_fds = allocated,
                           !.null_slots = nulls, !.call = "alloc"]
    IN  IF full /\ t.num_allocated_fds = max_fds
        THEN [t EXCEPT !.call = "alloc", !.ret = "-EMFILE"]
        ELSE IF full /\ fail = "realloc"
        THEN [t EXCEPT !.call = "alloc", !.ret = "-ENOMEM"]
        ELSE IF fail = "calloc"
        THEN [grown EXCEPT !.ret = "-ENOMEM"]
        ELSE [grown EXCEPT
                !.null_slots = nulls \ {i},
                !.num_opened_fds = (@ + 1) % U16,
                !.lte_opened_fds = IF has_lte /\ ~readonly
                                   THEN (@ + 1) % U16 ELSE @,
                !.ret = RET_OK, !.idx = i]

\* inode_put_fd on the handle in slot i
InodePutFdInTable(t, i) ==
    [t EXCEPT !.null_slots = @ \cup {i},
              !.num_opened_fds = (@ + U16 - 1) % U16,
              !.call = "put", !.ret = RET_OK, !.idx = i]

\* the tables the specification starts from and the slots it closes: tables
\* of up to MaxLowSlots slots and tables within MaxLowSlots of max_fds, NULL
\* in some of the first two slots and the last one
MaxLowSlots == 16
MaxLteOpens == 2

\* the filesystem calls made before the image is unmounted, and before the
\* open that is followed by its release
MaxCallsBeforeCommit == 3
MaxCallsBeforeOpen == 3

\* no thread is started, no export was called, and the unmount command is
\* the first of its mount point
NoThreads == [started |-> FALSE]
NoExport == [called |-> FALSE]
FirstCommand == [n |-> 1, stale |-> {}, premount |-> FALSE]
NoSide == thr = NoThreads /\ xp = NoExport /\ ucmd = FirstCommand

\* rebuild_wim() has not been called
NoCommit ==
    [pc |-> "none", todo |-> <<>>, kind |-> "none", lte |-> NoLte,
     dup |-> NoLte]

TableSizes ==
    {a \in (0..MaxLowSlots) \cup ((max_fds - MaxLowSlots)..max_fds) :
        a % fds_per_alloc = 0 \/ a = max_fds}

EndSlots(a) == {i \in {0, 1, a - 1} : 0 <= i /\ i < a}

InitTable ==
    \E a \in TableSizes :
        \E nulls \in SUBSET EndSlots(a) :
            fdt = [NoTable EXCEPT !.num_allocated_fds = a,
                                  !.num_opened_fds = a - Cardinality(nulls),
                                  !.null_slots = nulls]

T_Alloc ==
    \E has_lte \in BOOLEAN, readonly \in BOOLEAN, fail \in AllocFailures :
        /\ (fdt.num_opened_fds = fdt.num_allocated_fds)
              => \/ fdt.num_allocated_fds + fds_per_alloc <= MaxLowSlots
                 \/ fdt.num_allocated_fds >= max_fds - MaxLowSlots
        /\ (has_lte /\ ~readonly) => fdt.lte_opened_fds < MaxLteOpens
        /\ fdt' = AllocWimlibFdInTable(fdt, has_lte, readonly, fail)
        /\ UNCHANGED <<protoVars, imageVars, mnt, commit, sideVars>>

T_Put ==
    \E i \in EndSlots(fdt.num_allocated_fds) \ fdt.null_slots :
        /\ fdt' = InodePutFdInTable(fdt, i)
        /\ UNCHANGED <<protoVars, imageVars, mnt, commit, sideVars>>

(***************************************************************************)
(* wimlib_mount_image as a function of its arguments and of the step that  *)
(* fails in it                                                             *)
(***************************************************************************)
WIMLIB_ERR_INVALID_PARAM == "WIMLIB_ERR_INVALID_PARAM"
WIMLIB_ERR_SPLIT_UNSUPPORTED == "WIMLIB_ERR_SPLIT_UNSUPPORTED"
WIMLIB_ERR_NOMEM == "WIMLIB_ERR_NOMEM"
WIMLIB_ERR_MKDIR == "WIMLIB_ERR_MKDIR"
WIMLIB_ERR_FUSE == "WIMLIB_ERR_FUSE"

\* the steps of wimlib_mount_image that can fail, with the code each hands
\* back; the codes of the callees outside this file are named after them
MountFailureCode ==
    [verify_swm_set |-> "WIMLIB_ERR_SPLIT_INVALID",
     new_joined_lookup_table |-> WIMLIB_ERR_NOMEM,
     wim_run_full_verifications |-> "WIMLIB_ERR_INVALID_DENTRY",
     select_wim_image |-> "WIMLIB_ERR_METADATA_NOT_FOUND",
     exported |-> WIMLIB_ERR_INVALID_PARAM,
     modified |-> WIMLIB_ERR_INVALID_PARAM,
     lock_wim |-> "WIMLIB_ERR_ALREADY_LOCKED",
     realpath |-> WIMLIB_ERR_NOTDIR,
     strcat_dup |-> WIMLIB_ERR_NOMEM,
     STRDUP |-> WIMLIB_ERR_NOMEM,
     staging_realpath |-> WIMLIB_ERR_NOTDIR,
     staging_MALLOC |-> WIMLIB_ERR_NOMEM,
     mkdir |-> WIMLIB_ERR_MKDIR,
     fuse_main |-> WIMLIB_ERR_FUSE]

MountFailures == DOMAIN MountFailureCode \cup {"none"}

MountArguments ==
    [null_param : BOOLEAN, readwrite : BOOLEAN,
     num_additional_swms : 0..1, total_parts : 1..2]

NoMount ==
    [pc |-> "none", null_param |-> FALSE, readwrite |-> FALSE,
     num_additional_swms |-> 0, total_parts |-> 1, fail |-> "none",
     ret |-> RET_OK, fuse_main |-> "not called", staging_dir |-> FALSE,
     wim_locked |-> FALSE]

\* the steps made when the arguments are m: the steps of a read-write mount
\* and of additional parts are made only for them
MountStepMade(m, step) ==
    CASE step \in {"wim_run_full_verifications", "lock_wim",
                   "staging_realpath", "staging_MALLOC", "mkdir"}
            -> m.readwrite
      [] step = "new_joined_lookup_table" -> m.num_additional_swms > 0
      [] OTHER -> TRUE

\* wimlib_mount_image; when STRDUP fails it jumps to the exit with ret as
\* set_message_queue_names left it, which is 0
WimlibMountImage(m) ==
    LET fails(step) == m.fail = step /\ MountStepMade(m, step)
        err(step) == [m EXCEPT !.pc = "returned",
                               !.ret = MountFailureCode[step]]
        locked == [m EXCEPT !.wim_locked = m.readwrite]
    IN  IF m.null_param
        THEN [m EXCEPT !.pc = "returned", !.ret = WIMLIB_ERR_INVALID_PARAM]
        ELSE IF fails("verify_swm_set") THEN err("verify_swm_set")
        ELSE IF m.readwrite /\ m.total_parts # 1
        THEN [m EXCEPT !.pc = "returned",
                       !.ret = WIMLIB_ERR_SPLIT_UNSUPPORTED]
        ELSE IF fails("new_joined_lookup_table")
        THEN err("new_joined_lookup_table")
        ELSE IF fails("wim_run_full_verifications")
        THEN err("wim_run_full_verifications")
        ELSE IF fails("select_wim_image") THEN err("select_wim_image")
        ELSE IF fails("exported") THEN err("exported")
        ELSE IF fails("modified") THEN err("modified")
        ELSE IF fails("lock_wim") THEN err("lock_wim")
        ELSE IF fails("realpath") THEN err("realpath")
        ELSE IF fails("strcat_dup") THEN err("strcat_dup")
        ELSE IF fails("STRDUP")
        THEN [locked EXCEPT !.pc = "returned", !.ret = RET_OK]
        ELSE IF fails("staging_realpath") THEN err("staging_realpath")
        ELSE IF fails("staging_MALLOC") THEN err("staging_MALLOC")
        ELSE IF fails("mkdir") THEN err("mkdir")
        ELSE [m EXCEPT !.pc = "returned",
                       !.staging_dir = m.readwrite,
                       !.fuse_main = IF fails("fuse_main") THEN "failed"
                                     ELSE "ended with 0",
                       !.ret = IF fails("fuse_main") THEN WIMLIB_ERR_FUSE
                               ELSE RET_OK]

InitMount ==
    \E a \in MountArguments, f \in MountFailures :
        mnt = [NoMount EXCEPT !.pc = "called", !.null_param = a.null_param,
                              !.readwrite = a.readwrite,
                              !.num_additional_swms = a.num_additional_swms,
                              !.total_parts = a.total_parts, !.fail = f]

M_Return ==
    /\ mnt.pc = "called"
    /\ mnt' = WimlibMountImage(mnt)
    /\ UNCHANGED <<protoVars, imageVars, fdt, commit, sideVars>>

\* "shared": /x and /y are two files with the same content, hence one blob;
\* "hardlinked": /x and /y are two names of one file;
\* "tree": /x is a directory that holds the file /x/y, /y an empty directory;
\* "streams": /x is a file with an unnamed stream and the named stream s
Images == {"shared", "hardlinked"}

\* the content of the named stream of the "streams" image
OtherContent == <<"b">>

ArchiveLte(refcnt) ==
    [NewLookupTableEntry EXCEPT
        !.refcnt = refcnt, !.in_table = TRUE, !.location = "in_wim",
        !.hash = Sha1(ArchiveContent), !.content = ArchiveContent]

ArchiveFile(link_count) ==
    [NewInode("file") EXCEPT !.link_count = link_count, !.lte = 1]

ArchiveDir(children) ==
    [NewInode("dir") EXCEPT !.children = children]

ImageInodes(image) ==
    [i \in InoIds |->
        IF image = "tree"
        THEN IF i = RootIno THEN ArchiveDir({<<"x", 1>>, <<"y", 3>>})
             ELSE IF i = 1 THEN ArchiveDir({<<"y", 2>>})
             ELSE IF i = 2 THEN ArchiveFile(1)
             ELSE IF i = 3 THEN ArchiveDir({})
             ELSE FreeInode
        ELSE IF image = "streams"
        THEN IF i = RootIno THEN ArchiveDir({<<"x", 1>>})
             ELSE IF i = 1
             THEN [ArchiveFile(1) EXCEPT
                      !.ads = <<[name |-> "s", stream_id |-> 1, lte |-> 2]>>,
                      !.next_stream_id = 2]
             ELSE FreeInode
        ELSE IF i = RootIno
        THEN ArchiveDir(IF image = "shared"
                        THEN {<<"x", 1>>, <<"y", 2>>}
                        ELSE {<<"x", 1>>, <<"y", 1>>})
        ELSE IF i = 1 THEN ArchiveFile(IF image = "shared" THEN 1 ELSE 2)
        ELSE IF i = 2 /\ image = "shared" THEN ArchiveFile(1)
        ELSE FreeInode]

ImageLtes(image) ==
    [l \in LteIds |->
        IF l = 1
        THEN ArchiveLte(IF image \in {"tree", "streams"} THEN 1 ELSE 2)
        ELSE IF l = 2 /\ image = "streams"
        THEN [ArchiveLte(1) EXCEPT !.hash = Sha1(OtherContent),
                                   !.content = OtherContent]
        ELSE FreeLte]

InitImage(image) ==
    /\ inodes = ImageInodes(image)
    /\ ltes = ImageLtes(image)
    /\ sfiles = [f \in FileIds |-> NoFile]
    /\ staging_list = <<>>
    /\ fslast = NoCall

(***************************************************************************)
(* The unmount protocol as a specification                                 *)
(***************************************************************************)
InitProto ==
    /\ mount_flags \in MountFlagSets
    /\ daemon_pid \in Pids
    /\ dalive = TRUE
    /\ host_unmounted = FALSE
    /\ staging_dir = ("READWRITE" \in mount_flags)
    /\ archive = 0
    /\ u2d = <<>> /\ d2u = <<>>
    /\ mq_linked = FALSE /\ mq_open = {}
    /\ injected = 0
    /\ upc = "start"
    /\ unmount_flags \in UnmountFlagSets
    /\ uctx = InitUnmountCtx
    /\ uret = "none"
    /\ ulast = Last("none", NoMsg, TRUE)
    /\ dpc = "mounted"
    /\ dret = "none"
    /\ dlog = <<>>
    /\ InitImage("shared")
    /\ fdt = NoTable /\ mnt = NoMount /\ commit = NoCommit /\ NoSide

UnmountStep ==
    U_Open \/ U_SendRequest \/ U_Fusermount \/ U_Receive \/ U_Timeout

DaemonStep ==
    D_Destroy \/ D_Receive \/ D_Timeout \/ D_Exit

NextProtoNoFaults == UnmountStep \/ DaemonStep \/ D_Crash \/ D_CrashInHandler

NextProto ==
    \/ UnmountStep \/ U_RecvError
    \/ DaemonStep \/ D_RecvError \/ D_Crash \/ D_CrashInHandler
    \/ E_Inject

SpecUnmount == InitProto /\ [][NextProto]_vars

\* the unmount command and the daemon keep running while they can; no
\* message of another sender and no failure of mq_timedreceive
SpecUnmountLive ==
    /\ InitProto
    /\ [][NextProtoNoFaults]_vars
    /\ WF_vars(UnmountStep)
    /\ WF_vars(DaemonStep)

\* the daemon keeps running while it can, whatever the unmount command and
\* the other senders do
SpecDaemonLive ==
    /\ InitProto
    /\ [][NextProto]_vars
    /\ WF_vars(DaemonStep)

(***************************************************************************)
(* The mounted filesystem as a specification: a read-write mount serving   *)
(* calls, before any unmount                                               *)
(***************************************************************************)
FsMountFlagSets ==
    {{"READWRITE", "XATTR"}, {"READWRITE", "XATTR", "WINDOWS"}}

InitMounted(flagsets, images) ==
    /\ mount_flags \in flagsets
    /\ daemon_pid \in Pids
    /\ dalive = TRUE
    /\ host_unmounted = FALSE
    /\ staging_dir = TRUE
    /\ archive = 0
    /\ u2d = <<>> /\ d2u = <<>>
    /\ mq_linked = FALSE /\ mq_open = {}
    /\ injected = 0
    /\ upc = "start"
    /\ unmount_flags = {}
    /\ uctx = InitUnmountCtx
    /\ uret = "none"
    /\ ulast = Last("none", NoMsg, TRUE)
    /\ dpc = "mounted"
    /\ dret = "none"
    /\ dlog = <<>>
    /\ \E image \in images : InitImage(image)

Init == InitMounted(FsMountFlagSets, Images) /\ fdt = NoTable /\ mnt = NoMount /\ commit = NoCommit /\ NoSide

Next ==
    \/ Open \/ Release \/ Read \/ Write \/ Truncate
    \/ Mkdir \/ Mknod \/ Symlink \/ Link \/ Unlink \/ Rmdir \/ Rename
    \/ Setxattr \/ Removexattr

Spec == Init /\ [][Next]_vars

(***************************************************************************)
(* The mounted filesystem with a directory tree, serving the calls that    *)
(* change the names                                                        *)
(***************************************************************************)
InitTree == InitMounted({{"READWRITE", "XATTR"}}, {"tree"}) /\ fdt = NoTable /\ mnt = NoMount /\ commit = NoCommit /\ NoSide

NextTree == Mkdir \/ Mknod \/ Rmdir \/ Rename \/ Unlink \/ Link

SpecTree == InitTree /\ [][NextTree]_vars

(***************************************************************************)
(* One inode's table of handles as a specification: handles are allocated  *)
(* and put in tables that are nearly empty or nearly at max_fds            *)
(***************************************************************************)
InitFds ==
    InitMounted({{"READWRITE", "XATTR"}}, {"shared"}) /\ InitTable
    /\ mnt = NoMount /\ commit = NoCommit /\ NoSide

NextFds == T_Alloc \/ T_Put

SpecFds == InitFds /\ [][NextFds]_vars

(***************************************************************************)
(* A call of wimlib_mount_image as a specification                         *)
(***************************************************************************)
InitMountCall ==
    InitMounted({{"READWRITE", "XATTR"}}, {"shared"}) /\ fdt = NoTable
    /\ InitMount /\ commit = NoCommit /\ NoSide

NextMountCall == M_Return

SpecMount == InitMountCall /\ [][NextMountCall]_vars

(***************************************************************************)
(* Read-only and read-write mounts together.  A read-only mount is mounted *)
(* with the option "ro": only opens for reading, reads and releases reach  *)
(* the daemon                                                              *)
(***************************************************************************)
ReadOnlyFlagSets == {{}, {"WINDOWS"}}

Y_Open ==
    \E path \in Paths, at \in {"none", "alloc_fd"} :
        LET r == LookupResource(FsState, path, AdsOk, FALSE)
        IN  /\ WimfsCtxReadonly
            /\ FsAlive
            /\ NotSymlink(r) /\ HasFreeSlot(r)
            /\ at # "none" => r.ret = RET_OK
            /\ FsCall("open", WimfsOpen(FsState, path, AdsOk, WimfsCtxReadonly,
                                        "O_RDONLY", [at |-> at, k |-> 0]))

Y_Release == WimfsCtxReadonly /\ Release

Y_Read == WimfsCtxReadonly /\ Read

\* the calls made on a read-write mount before the open
Y_ReadWrite ==
    ~WimfsCtxReadonly /\ fslast.n < MaxCallsBeforeOpen /\ Next

InitAnyMount ==
    /\ InitMounted(FsMountFlagSets \cup ReadOnlyFlagSets, Images)
    /\ fdt = NoTable /\ mnt = NoMount /\ commit = NoCommit /\ NoSide

NextAnyMount == Y_Open \/ Y_Release \/ Y_Read \/ Y_ReadWrite

SpecAnyMount == InitAnyMount /\ [][NextAnyMount]_vars

(***************************************************************************)
(* The commit of the mounted image: rebuild_wim()                          *)
(***************************************************************************)
\* what sha1sum() returns when it fails: only its being nonzero matters
WIMLIB_ERR_OPEN == "WIMLIB_ERR_OPEN"
WIMLIB_ERR_STAT == "WIMLIB_ERR_STAT"

CommitStep(S, ret, kind, dup) ==
    [S |-> S, ret |-> ret, kind |-> kind, dup |-> dup]

\* inode_update_lte_ptr(): the unnamed stream if it matches, else the first
\* named stream that matches
InodeUpdateLtePtr(S, ino, old_lte, new_lte) ==
    LET inode == S.inodes[ino]
        hits == {i \in 1..Len(inode.ads) : inode.ads[i].lte = old_lte}
    IN  IF inode.lte = old_lte THEN [S EXCEPT !.inodes[ino].lte = new_lte]
        ELSE IF hits = {} THEN S
        ELSE [S EXCEPT !.inodes[ino].ads[LeastOf(hits)].lte = new_lte]

\* update_lte_of_staging_file(); fail names the library call that fails
UpdateLteOfStagingFile(S, l, fail) ==
    LET lte == S.ltes[l]
        content == S.sfiles[lte.staging_file].content
        hash == Sha1(content)
        S1 == [S EXCEPT !.ltes[l].in_table = FALSE]
        duplicate_lte == LookupByHash(S1, hash)
    IN  IF fail = "sha1sum" THEN CommitStep(S, WIMLIB_ERR_OPEN, "none", NoLte)
        ELSE IF ~S.inodes[lte.lte_inode].alloc
        THEN CommitStep(Fault(S1, "SIGSEGV"), RET_OK, "none", NoLte)
        ELSE IF duplicate_lte # NoLte
        THEN CommitStep(
                 [InodeUpdateLtePtr(
                      [S1 EXCEPT !.ltes[duplicate_lte].refcnt =
                                     @ + lte.refcnt],
                      lte.lte_inode, l, duplicate_lte)
                  EXCEPT !.ltes[l] = FreeLte],
                 RET_OK, "merged", duplicate_lte)
        ELSE IF fail = "stat"
        THEN CommitStep(S1, WIMLIB_ERR_STAT, "none", NoLte)
        ELSE IF Len(content) = 0
        THEN CommitStep(
                 [InodeUpdateLtePtr(S1, lte.lte_inode, l, NoLte)
                  EXCEPT !.ltes[l] = FreeLte],
                 RET_OK, "discarded", NoLte)
        ELSE CommitStep(
                 [S1 EXCEPT !.ltes[l].location = "in_file_on_disk",
                            !.ltes[l].content = content,
                            !.ltes[l].hash = hash,
                            !.ltes[l].in_table = TRUE],
                 RET_OK, "rekeyed", NoLte)

\* inode_close_fds(): the open handles of the inode are closed in slot order;
\* close_fails makes the close() of a staging descriptor fail
RECURSIVE InodeCloseFdsFrom(_, _, _, _)
InodeCloseFdsFrom(S, ino, i, close_fails) ==
    IF i = MaxFds \/ ~S.inodes[ino].alloc
    THEN CommitStep(S, RET_OK, "drain", NoLte)
    ELSE LET fd == S.inodes[ino].fds[i]
         IN  IF ~fd.open THEN InodeCloseFdsFrom(S, ino, i + 1, close_fails)
             ELSE IF /\ close_fails
                     /\ IsStaged(S, fd.f_lte)
                     /\ fd.staging_fd # NoStagingFd
             THEN CommitStep(S, "-EIO", "drain", NoLte)
             ELSE InodeCloseFdsFrom(CloseWimlibFd(S, ino, i), ino, i + 1,
                                    close_fails)

InodeCloseFds(S, ino, close_fails) ==
    InodeCloseFdsFrom(S, ino, 0, close_fails)

\* the first loop of rebuild_wim(), from the entry lte of the staging list;
\* rest is what follows lte in the list.  The loop keeps the entry after lte
\* while the handles of lte's inode are closed: when that entry is freed by
\* the closing, the loop goes on from freed memory, and either crashes or
\* finds the entry as it was
RECURSIVE DrainFrom(_, _, _, _, _)
DrainFrom(S, lte, rest, close_fails, crash) ==
    LET r == InodeCloseFds(S, S.ltes[lte].lte_inode, close_fails)
        live == SelectSeq(rest, LAMBDA e : r.S.ltes[e].alloc)
    IN  IF r.ret # RET_OK \/ rest = <<>> THEN r
        ELSE IF r.S.ltes[Head(rest)].alloc
        THEN DrainFrom(r.S, Head(live), Tail(live), close_fails, crash)
        ELSE IF crash
        THEN CommitStep(Fault(r.S, "SIGSEGV"), RET_OK, "drain", NoLte)
        ELSE IF live = <<>> THEN r
        ELSE DrainFrom(r.S, Head(live), Tail(live), close_fails, crash)

RebuildWimDrain(S, close_fails, crash) ==
    IF S.staging_list = <<>> THEN CommitStep(S, RET_OK, "drain", NoLte)
    ELSE DrainFrom(S, Head(S.staging_list), Tail(S.staging_list),
                   close_fails, crash)

\* the filesystem is idle: wimfs_destroy() runs when no call is in progress
Unmounting ==
    /\ dpc = "mounted"
    /\ fslast.ret \notin {"ASSERT", "SIGSEGV"}
    /\ ~DanglingRef

CommitImage(r) ==
    /\ inodes' = r.S.inodes
    /\ ltes' = r.S.ltes
    /\ sfiles' = r.S.sfiles
    /\ staging_list' = r.S.staging_list
    /\ UNCHANGED <<protoVars, fslast, fdt, mnt, sideVars>>

\* rebuild_wim(), its first loop
K_Drain ==
    /\ commit.pc = "none"
    /\ Unmounting
    /\ \E close_fails \in BOOLEAN, crash \in BOOLEAN :
          LET r == RebuildWimDrain(FsState, close_fails, crash)
          IN  /\ CommitImage(r)
              /\ commit' =
                   [pc |-> IF r.S.fault # "none" THEN "crashed"
                           ELSE IF r.ret # RET_OK THEN "failed"
                           ELSE IF r.S.staging_list = <<>> THEN "rehashed"
                           ELSE "drained",
                    todo |-> r.S.staging_list, kind |-> "drain",
                    lte |-> NoLte, dup |-> NoLte]

RehashFailures == {"none", "sha1sum", "stat"}

\* rebuild_wim(), one turn of its second loop.  The loop reads the list
\* links of the entry after update_lte_of_staging_file() has freed it: it
\* either crashes or finds the links as they were
K_Rehash ==
    /\ commit.pc \in {"drained", "hashing"}
    /\ commit.todo # <<>>
    /\ \E fail \in RehashFailures, crash \in BOOLEAN :
          LET l == Head(commit.todo)
              r == UpdateLteOfStagingFile(FsState, l, fail)
          IN  /\ CommitImage(r)
              /\ commit' =
                   [pc |-> IF r.S.fault # "none" THEN "crashed"
                           ELSE IF r.ret # RET_OK THEN "failed"
                           ELSE IF r.kind \in {"merged", "discarded"} /\ crash
                           THEN "crashed"
                           ELSE IF Tail(commit.todo) = <<>> THEN "rehashed"
                           ELSE "hashing",
                    todo |-> Tail(commit.todo), kind |-> r.kind,
                    lte |-> l, dup |-> r.dup]

\* rebuild_wim(), the call of wimlib_overwrite()
K_Write ==
    /\ commit.pc = "rehashed"
    /\ \E ok \in BOOLEAN :
          commit' = [commit EXCEPT !.pc = IF ok THEN "written" ELSE "failed",
                                   !.kind = "write"]
    /\ UNCHANGED <<protoVars, imageVars, fdt, mnt, sideVars>>

\* the filesystem calls made before the image is unmounted
K_Call == commit.pc = "none" /\ fslast.n < MaxCallsBeforeCommit /\ Next

NextCommit == K_Call \/ K_Drain \/ K_Rehash \/ K_Write

SpecCommit == Init /\ [][NextCommit]_vars

(***************************************************************************)
(* Properties of the unmount protocol                                      *)
(***************************************************************************)
ReadWrite == "READWRITE" \in mount_flags
ResOf(ev) == IF HasEv(dlog, ev) THEN TheEv(dlog, ev).res ELSE RET_OK
IdxOf(ev) == CHOOSE i \in EvsOf(dlog, ev) : TRUE
\* the request the daemon handled carried WIMLIB_UNMOUNT_FLAG_COMMIT
HandledCommitFlag ==
    HasEv(dlog, "request") /\ "COMMIT" \in TheEv(dlog, "request").flags
CommitRan == HasEv(dlog, "drain")
FinishedSent == HasOkEv(dlog, "finished")

WellFormedFinished(m) ==
    /\ m.bytes >= SizeofHdr /\ m.bytes = m.msg_size
    /\ m.min_version <= WIMLIB_VERSION_CODE
    /\ m.msg_type = MSG_TYPE_UNMOUNT_FINISHED
    /\ m.msg_size >= SizeofUnmountFinished

\* C6: when the message loop of the unmount command receives a well-formed
\* UNMOUNT_FINISHED, the loop ends and wimlib_unmount_image returns the
\* status the message carries.
C6_FinishedEndsLoopWithStatus ==
    (ulast.kind = "msg" /\ WellFormedFinished(ulast.msg))
        => (upc = "done" /\ uret = ulast.msg.body.status)

\* the daemon reported a failed commit and the unmount command returned it
C6_Witness ==
    /\ ulast.kind = "msg" /\ WellFormedFinished(ulast.msg)
    /\ injected = 0 /\ FinishedSent
    /\ ulast.msg.body.status \in WriteErrs
    /\ uret = ulast.msg.body.status

\* C7: once the unmount command is in its message loop and the daemon
\* process is gone without having sent UNMOUNT_FINISHED, the unmount command
\* eventually returns DAEMON_CRASHED; it never returns 0 without an
\* UNMOUNT_FINISHED having been sent.
C7_DaemonDeathDetected ==
    /\ [](( upc = "loop" /\ ~dalive /\ ~FinishedSent)
            => <>(upc = "done"
                  /\ uret = WIMLIB_ERR_FILESYSTEM_DAEMON_CRASHED))
    /\ []((upc = "done" /\ ~FinishedSent) => uret # RET_OK)

\* the daemon died after it had sent DAEMON_INFO; the command saw the pid
C7_Witness ==
    /\ upc = "done" /\ uret = WIMLIB_ERR_FILESYSTEM_DAEMON_CRASHED
    /\ dpc = "dead" /\ HasOkEv(dlog, "daemon_info") /\ ~FinishedSent
    /\ uctx.daemon_pid = daemon_pid

\* C8: a receive timeout of the unmount command while the daemon process is
\* alive leaves the unmount command waiting in its message loop.
C8_TimeoutAliveKeepsWaiting ==
    (ulast.kind = "timeout" /\ ulast.alive) => upc = "loop"

HandlerFailure ==
    \/ ResOf("request") = "short"
    \/ \E ev \in {"daemon_info", "drain", "rehash", "write", "delete_staging"} :
          ResOf(ev) # RET_OK
DaemonEndedWithError ==
    \/ dret # RET_OK
    \/ HandlerFailure

\* C9 (as stated): the daemon never ends its unmount handling with an error
\* without having sent UNMOUNT_FINISHED carrying an error status.
C9_EveryDaemonErrorReported ==
    (dpc = "exited" /\ DaemonEndedWithError)
        => (FinishedSent /\ TheEv(dlog, "finished").status # RET_OK)

\* C9 (amended): every failure inside the handler of a received
\* UNMOUNT_REQUEST (body too short, DAEMON_INFO not sent, commit failure,
\* staging-directory deletion failure) is the status the daemon passes to
\* send_unmount_finished_msg; when the message loop ends before a request
\* reached its handler, no UNMOUNT_FINISHED is sent at all.
C9_HandlerFailuresReported ==
    /\ (dpc = "exited" /\ HasEv(dlog, "request"))
         => /\ HasEv(dlog, "finished")
            /\ dret = RET_OK
            /\ HandlerFailure <=> TheEv(dlog, "finished").status # RET_OK
    /\ (dpc = "exited" /\ ~HasEv(dlog, "request"))
         => (~HasEv(dlog, "finished") /\ dret # RET_OK)

\* DAEMON_INFO could not be sent and UNMOUNT_FINISHED carries that error
C9_Witness ==
    /\ dpc = "exited" /\ ResOf("daemon_info") = WIMLIB_ERR_MQUEUE
    /\ FinishedSent
    /\ TheEv(dlog, "finished").status = WIMLIB_ERR_MQUEUE

FirstCommitError ==
    IF ResOf("drain") # RET_OK THEN ResOf("drain")
    ELSE IF ResOf("rehash") # RET_OK THEN ResOf("rehash")
    ELSE IF ResOf("write") # RET_OK THEN ResOf("write")
    ELSE ResOf("delete_staging")

DeleteAfterCommit ==
    \A ev \in {"drain", "rehash", "write"} :
        HasEv(dlog, ev) => IdxOf(ev) < IdxOf("delete_staging")

\* C11 (as stated): for every UNMOUNT_REQUEST the daemon handles,
\* delete_staging_dir has run before UNMOUNT_FINISHED is sent, whatever the
\* mount mode, the flags, the size of the request and the outcome of
\* DAEMON_INFO and of the commit; never before the archive writer returned.
C11_StagingAlwaysDeletedBeforeFinished ==
    HasEv(dlog, "finished") =>
        /\ HasEv(dlog, "delete_staging")
        /\ IdxOf("delete_staging") < IdxOf("finished")
        /\ DeleteAfterCommit

\* C11 (amended): on a read-write mount, for every UNMOUNT_REQUEST the daemon
\* handles, delete_staging_dir has run before UNMOUNT_FINISHED is sent,
\* whatever the flags, the size of the request and the outcome of
\* DAEMON_INFO and of the commit, and never before the archive writer
\* returned; on a read-only mount, which has no staging directory,
\* delete_staging_dir is not run at all.
C11_StagingDeletedBeforeFinishedIfReadWrite ==
    /\ (HasEv(dlog, "finished") /\ ReadWrite) =>
          /\ HasEv(dlog, "delete_staging")
          /\ IdxOf("delete_staging") < IdxOf("finished")
          /\ DeleteAfterCommit
    /\ ~ReadWrite => ~HasEv(dlog, "delete_staging")
    /\ (ReadWrite /\ ~staging_dir) => HasOkEv(dlog, "delete_staging")

\* a request too short for its body, on a read-write mount: the staging
\* directory was deleted and UNMOUNT_FINISHED sent
C11_Witness ==
    /\ ReadWrite /\ ResOf("request") = "short"
    /\ HasOkEv(dlog, "delete_staging") /\ ~staging_dir
    /\ FinishedSent

(***************************************************************************)
(* Properties of the mounted filesystem                                    *)
(***************************************************************************)
\* the streams of inode i: 0 is the unnamed stream, 1 .. num_ads the named
StreamsOf(i) == 0..Len(inodes[i].ads)

\* the sum, over the (inode, stream) pairs whose stream points to l, of the
\* inode's link_count
LinkSum(l) ==
    Cardinality({t \in InoIds \X (0..MaxStreamId) \X (1..(MaxCalls + 2)) :
                    /\ inodes[t[1]].alloc
                    /\ t[2] \in StreamsOf(t[1])
                    /\ InodeStreamLte(inodes[t[1]], t[2]) = l
                    /\ t[3] <= inodes[t[1]].link_count})

\* C1: on a read-write mount every blob descriptor in the store has a refcnt
\* equal to the sum, over the (inode, stream) pairs that point to it, of the
\* inode's link_count.
C1_RefcntIsSumOfLinkCounts ==
    \A l \in LteIds :
        ltes[l].alloc /\ ltes[l].in_table => ltes[l].refcnt = LinkSum(l)

\* the index, among the streams of the inode, of the stream with this id
StreamIndex(inode, stream_id) ==
    IF stream_id = UnnamedStreamId THEN 0
    ELSE CHOOSE k \in 1..Len(inode.ads) : inode.ads[k].stream_id = stream_id

\* the last call staged a stream that had a descriptor, whether or not the
\* call went on to fail after the staging
StagedInStep ==
    fslast'.branch \in {"reuse", "split"}

\* what a split of descriptor old, for stream k of inode i, leaves behind
SplitInStep(i, k, old) ==
    LET new == InodeStreamLte(inodes'[i], k)
    IN  /\ new # old /\ new # NoLte
        /\ ltes'[new].location = "in_staging_file"
        /\ ltes'[old].refcnt = ltes[old].refcnt - inodes[i].link_count
        /\ ltes'[new].refcnt = inodes[i].link_count
        /\ ltes'[old].alloc /\ ltes'[old].in_table
        /\ ltes'[old].location = ltes[old].location
        /\ ltes'[old].content = ltes[old].content
        /\ \A j \in InoIds, m \in 0..MaxStreamId :
              (/\ inodes[j].alloc /\ m \in StreamsOf(j)
               /\ <<j, m>> # <<i, k>>
               /\ InodeStreamLte(inodes[j], m) = old)
              => (/\ inodes'[j].alloc /\ m \in 0..Len(inodes'[j].ads)
                  /\ InodeStreamLte(inodes'[j], m) = old)

\* a write changes the staging file its handle is open on and nothing else
WriteInStep ==
    /\ ltes' = ltes
    /\ inodes' = inodes
    /\ \E f \in FileIds : \A g \in FileIds \ {f} : sfiles'[g] = sfiles[g]

\* C2: when a stream of an inode is staged while its blob is also referenced
\* elsewhere (refcnt > link_count), the blob is split: its refcnt goes down
\* by the inode's link_count, the staged descriptor gets refcnt link_count,
\* the blob stays in the store with its content, every other stream that
\* pointed to it still does, and a later write leaves every descriptor and
\* every other file as it was.
C2_SplitKeepsSharedBlob ==
    [][/\ (StagedInStep
           /\ ltes[fslast'.old].refcnt > inodes[fslast'.ino].link_count)
          => SplitInStep(fslast'.ino,
                         StreamIndex(inodes[fslast'.ino], fslast'.sid),
                         fslast'.old)
       /\ (fslast'.op = "write" /\ fslast'.ret = RET_OK) => WriteInStep
      ]_vars

\* two files shared one blob; one was staged and written to, the other still
\* points to the blob in the archive, both descriptors with refcnt 1
C2_Witness ==
    \E i \in InoIds, j \in InoIds :
        /\ i # j /\ inodes[i].alloc /\ inodes[j].alloc
        /\ inodes[i].link_count = 1 /\ inodes[j].link_count = 1
        /\ IsStaged(FsState, inodes[i].lte)
        /\ ltes[inodes[i].lte].refcnt = 1
        /\ sfiles[ltes[inodes[i].lte].staging_file].content \in WriteData
        /\ inodes[j].lte # NoLte
        /\ ltes[inodes[j].lte].location = "in_wim"
        /\ ltes[inodes[j].lte].in_table
        /\ ltes[inodes[j].lte].refcnt = 1
        /\ ltes[inodes[j].lte].content = ArchiveContent

\* C3: every open handle whose blob is in a staging file has a staging file
\* descriptor of its own, so the assertions of read and write hold.
C3_StagedHandlesHaveStagingFd ==
    \A h \in OpenHandles :
        LET fd == inodes[h[1]].fds[h[2]]
        IN  IsStaged(FsState, fd.f_lte) => fd.staging_fd # NoStagingFd

\* the descriptors that exist and the ones the store holds
LteExists(l) == l # NoLte /\ ltes[l].alloc
InStore(l) == LteExists(l) /\ ltes[l].in_table

\* the staging file of descriptor l, when l is staged, exists
ScratchFileKept(l) ==
    ltes[l].location = "in_staging_file" => sfiles[ltes[l].staging_file].exists

\* every file of the staging directory is the staging file of a descriptor
NoOrphanScratchFile ==
    \A f \in FileIds :
        sfiles[f].exists =>
            \E l \in LteIds : /\ LteExists(l)
                              /\ ltes[l].location = "in_staging_file"
                              /\ ltes[l].staging_file = f

\* C12: no descriptor with refcnt 0 and no open handle exists, and no staging
\* file outlives its descriptor; a descriptor with refcnt 0 and an open
\* handle is in the store with its staging file, and it is deleted only by
\* the release of a handle.
C12_DeadBlobsDeleted ==
    /\ [](\A l \in LteIds :
            /\ LteExists(l) =>
                  ~(ltes[l].refcnt = 0 /\ ltes[l].num_opened_fds = 0)
            /\ ~LteExists(l) => ~ltes[l].in_table
            /\ (LteExists(l) /\ ltes[l].refcnt = 0) =>
                  (InStore(l) /\ ScratchFileKept(l)))
    /\ []NoOrphanScratchFile
    /\ [][\A l \in LteIds :
            (LteExists(l) /\ ltes[l].refcnt = 0 /\ ~ltes'[l].alloc)
                => fslast'.op = "release"]_vars

\* a file was written through a handle and then unlinked: its staged
\* descriptor has refcnt 0, one open handle, and its staging file
C12_Witness ==
    \E l \in LteIds :
        /\ InStore(l) /\ ltes[l].refcnt = 0 /\ ltes[l].num_opened_fds = 1
        /\ ltes[l].location = "in_staging_file"
        /\ sfiles[ltes[l].staging_file].exists
        /\ fslast.op = "unlink"

\* the open handles that observe descriptor l
HandlesOn(l) == {h \in OpenHandles : inodes[h[1]].fds[h[2]].f_lte = l}

\* C13: on a read-write mount every descriptor has a num_opened_fds equal to
\* the number of open handles that observe it, whatever opens, releases,
\* stagings (re-use, split, failed) and unlinks came before.
C13_OpenFdCountIsHandleCount ==
    \A l \in LteIds :
        LteExists(l) => ltes[l].num_opened_fds = Cardinality(HandlesOn(l))

\* a handle was open on a file that shares its blob with another file when
\* the file was opened for writing: the split moved the handle to the staged
\* descriptor, which now counts both handles, and the old one counts none
C13_Witness ==
    /\ fslast.op = "open" /\ fslast.branch = "split" /\ fslast.ret = RET_OK
    /\ LteExists(fslast.old) /\ ltes[fslast.old].num_opened_fds = 0
    /\ ltes[inodes[fslast.ino].lte].num_opened_fds = 2
    /\ Cardinality(HandlesOn(inodes[fslast.ino].lte)) = 2

\* the occupied handle slots of inode i
OccupiedSlots(i) == {k \in FdSlots : inodes[i].fds[k].open}

\* C14: every open handle sits in a slot of its own of an inode that exists,
\* the inode's num_opened_fds is the number of its occupied slots, and the
\* descriptor the handle observes, if any, is in the store.
C14_HandlesAreConsistent ==
    \A i \in InoIds :
        /\ ~inodes[i].alloc => OccupiedSlots(i) = {}
        /\ inodes[i].num_opened_fds = Cardinality(OccupiedSlots(i))
        /\ \A k \in OccupiedSlots(i) :
              inodes[i].fds[k].f_lte # NoLte => InStore(inodes[i].fds[k].f_lte)

\* the dentries that name inode i
DentriesOf(i) ==
    {d \in InoIds \X Names :
        inodes[d[1]].alloc /\ <<d[2], i>> \in inodes[d[1]].children}

\* C15: an inode other than the root exists exactly while it has a link or
\* an open handle: it is freed by the step that takes its last link when no
\* handle is open, or its last handle when no link is left, and by no other
\* step; taking the last link of an inode with open handles leaves the inode
\* and its handles as they were; no dentry names a freed inode.
C15_InodeFreedWhenUnreferenced ==
    /\ [](\A i \in InoIds \ {RootIno} :
            /\ inodes[i].alloc =>
                  (inodes[i].link_count > 0 \/ inodes[i].num_opened_fds > 0)
            /\ ~inodes[i].alloc => DentriesOf(i) = {})
    /\ [][\A i \in InoIds \ {RootIno} :
            /\ (inodes[i].alloc /\ ~inodes'[i].alloc) =>
                  \/ inodes[i].link_count = 1 /\ inodes[i].num_opened_fds = 0
                  \/ inodes[i].link_count = 0 /\ inodes[i].num_opened_fds = 1
            /\ (inodes[i].alloc /\ inodes[i].num_opened_fds > 0
                  /\ inodes'[i].link_count < inodes[i].link_count) =>
                  /\ inodes'[i].alloc
                  /\ inodes'[i].fds = inodes[i].fds
                  /\ inodes'[i].num_opened_fds = inodes[i].num_opened_fds
           ]_vars

\* the only name of a file was removed while a handle was open on it
C15_Witness ==
    \E i \in InoIds \ {RootIno} :
        /\ inodes[i].alloc /\ inodes[i].link_count = 0
        /\ inodes[i].num_opened_fds = 1 /\ DentriesOf(i) = {}
        /\ fslast.op \in {"unlink", "rename"}

\* link(a, b) and then unlink(b), from the image as it is
LinkThenUnlink(a, b) ==
    LET l == WimfsLink(FsState, a, b)
        u == WimfsUnlink(l.S, [names |-> b, stream |-> ""], AdsOk)
    IN  [link |-> l, unlink |-> u]

\* C16: whenever link(a, b) succeeds, the unlink(b) that follows succeeds
\* too and leaves the image as it was before the link: the same dentries,
\* the same inode with the same link_count and streams under a, and every
\* descriptor with the refcnt it had.
C16_LinkThenUnlinkRestores ==
    FsAlive =>
        \A a \in NameSeqs, b \in NameSeqs :
            LinkThenUnlink(a, b).link.ret = RET_OK =>
                /\ LinkThenUnlink(a, b).link.S # FsState
                /\ LinkThenUnlink(a, b).unlink.ret = RET_OK
                /\ LinkThenUnlink(a, b).unlink.S = FsState

\* a file with a blob in its unnamed stream and one in a named stream, and a
\* free name to link it under
C16_Witness ==
    /\ FsAlive
    /\ \E a \in NameSeqs, b \in NameSeqs :
          /\ LinkThenUnlink(a, b).link.ret = RET_OK
          /\ LET i == GetDentry(FsState, a).ino
             IN  /\ inodes[i].lte # NoLte
                 /\ Len(inodes[i].ads) = 1
                 /\ inodes[i].ads[1].lte # NoLte
                 /\ LinkThenUnlink(a, b).link.S.inodes[i].link_count = 2

\* setxattr("user." name, value) on the file names, with no allocation
\* failing, and then getxattr("user." name) with a buffer of MaxLen bytes
SetThenGetxattr(names, name, value, flags) ==
    LET s == WimfsSetxattr(FsState, names, name, value, flags,
                           [at |-> "none", k |-> 0])
    IN  [set |-> s, get |-> WimfsGetxattr(s.S, names, name, MaxLen)]

\* the model has room for the stream and the descriptor setxattr may make
RoomForXattr(names) ==
    /\ FreeLteIds(FsState) # {}
    /\ GetDentry(FsState, names).ino # NoIno
    /\ inodes[GetDentry(FsState, names).ino].next_stream_id <= MaxStreamId

\* C17: on a mount with the XATTR stream interface, whenever
\* setxattr("user.n", v) succeeds, the getxattr("user.n") that follows
\* returns the length of v and exactly the bytes of v; v may be empty, may
\* be the content of an existing blob, and the attribute may have existed
\* with another value.
C17_SetxattrThenGetxattr ==
    (FsAlive /\ XattrInterface) =>
        \A names \in NameSeqs, name \in StreamNames,
           value \in RoundTripValues, flags \in {"none", "CREATE", "REPLACE"} :
            (/\ RoomForXattr(names)
             /\ SetThenGetxattr(names, name, value, flags).set.ret = RET_OK)
            => /\ SetThenGetxattr(names, name, value, flags).get.ret = RET_OK
               /\ SetThenGetxattr(names, name, value, flags).get.size
                     = Len(value)
               /\ SetThenGetxattr(names, name, value, flags).get.data = value

\* the attribute exists with the content of the file as its value, held by
\* the file's own blob, and setxattr can replace it by the empty value and
\* by a value that no blob holds
C17_Witness ==
    /\ FsAlive /\ XattrInterface
    /\ \E names \in NameSeqs, name \in StreamNames :
          /\ RoomForXattr(names)
          /\ WimfsGetxattr(FsState, names, name, MaxLen).ret = RET_OK
          /\ WimfsGetxattr(FsState, names, name, MaxLen).data = ArchiveContent
          /\ inodes[GetDentry(FsState, names).ino].ads[1].lte
                = inodes[GetDentry(FsState, names).ino].lte
          /\ \A value \in RoundTripValues \ {ArchiveContent} :
                /\ SetThenGetxattr(names, name, value, "REPLACE").set.ret
                      = RET_OK
                /\ SetThenGetxattr(names, name, value, "REPLACE").set.old
                      = NoLte

\* what write() followed by read() is tried with
RoundTripWrites == {<<"Z">>, <<"Y", "Z">>}

\* write(off, bytes) and then read(off, |bytes|) through the handle h
WriteThenRead(h, off, bytes) ==
    LET w == WimfsWrite(FsState, h[1], h[2], off, bytes)
    IN  [write |-> w,
         read |-> WimfsRead(w.S, h[1], h[2], off, Len(bytes), FALSE)]

\* the open handles that were opened with one of these access modes
HandlesOpened(modes) ==
    {h \in OpenHandles : inodes[h[1]].fds[h[2]].flags \in modes}

\* write then read through h gives the bytes back
RoundTrips(h) ==
    \A off \in 0..MaxLen, bytes \in RoundTripWrites :
        /\ WriteThenRead(h, off, bytes).write.ret = RET_OK
        /\ WriteThenRead(h, off, bytes).read.ret = RET_OK
        /\ WriteThenRead(h, off, bytes).read.data = bytes

\* C18 (as stated): through every handle opened with write access (O_WRONLY
\* or O_RDWR), write(off, bytes) followed by read(off, |bytes|) returns
\* exactly bytes.
C18_WriteThenReadAnyWritable ==
    FsAlive => \A h \in HandlesOpened({"O_WRONLY", "O_RDWR"}) : RoundTrips(h)

\* C18 (amended): through every handle opened O_RDWR, write(off, bytes)
\* followed by read(off, |bytes|) returns exactly bytes; through a handle
\* opened O_WRONLY the write succeeds and the read fails with EBADF, the
\* staging file descriptor having been opened write-only.
C18_WriteThenReadIfReadWrite ==
    FsAlive =>
        /\ \A h \in HandlesOpened({"O_RDWR"}) : RoundTrips(h)
        /\ \A h \in HandlesOpened({"O_WRONLY"}) :
              \A off \in 0..MaxLen, bytes \in RoundTripWrites :
                  /\ WriteThenRead(h, off, bytes).write.ret = RET_OK
                  /\ WriteThenRead(h, off, bytes).read.ret = "-EBADF"

\* a file of the archive is open O_RDWR and, through another handle,
\* O_WRONLY; its staging file still holds the content of the archive
C18_Witness ==
    /\ FsAlive
    /\ \E h \in HandlesOpened({"O_RDWR"}), g \in HandlesOpened({"O_WRONLY"}) :
          /\ h[1] = g[1]
          /\ inodes[h[1]].fds[h[2]].f_lte = inodes[g[1]].fds[g[2]].f_lte
          /\ sfiles[inodes[h[1]].fds[h[2]].staging_fd].content
                = ArchiveContent

\* the number of streams of inode i that refer to descriptor l
StreamRefs(i, l) ==
    Cardinality({k \in 0..Len(inodes[i].ads) :
                    InodeStreamLte(inodes[i], k) = l})

\* the children of directory i after the dentry dst was removed and the
\* dentry src was moved to its place
ChildrenAfterRename(i, src, dst) ==
    ((inodes[i].children
        \ (IF i = dst.parent THEN {<<dst.name, dst.ino>>} ELSE {}))
        \ (IF i = src.parent THEN {<<src.name, src.ino>>} ELSE {}))
    \cup (IF i = dst.parent THEN {<<dst.name, src.ino>>} ELSE {})

\* what rename(from, to) owes when both paths resolve to different dentries
RenameOntoExisting(from, to) ==
    LET src == GetDentry(FsState, from)
        dst == GetDentry(FsState, to)
        r == WimfsRename(FsState, from, to)
        srcdir == IsDirectory(FsState, src.ino)
        dstdir == IsDirectory(FsState, dst.ino)
    IN  /\ (~srcdir /\ dstdir) => r.ret = "-EISDIR"
        /\ (srcdir /\ ~dstdir) => r.ret = "-ENOTDIR"
        /\ (srcdir /\ dstdir /\ inodes[dst.ino].children # {})
              => r.ret = "-ENOTEMPTY"
        /\ r.ret # RET_OK => r.S = FsState
        /\ r.ret = RET_OK =>
              /\ r.S.fault = "none"
              /\ \A i \in InoIds :
                    (inodes[i].alloc /\ i # dst.ino) =>
                        r.S.inodes[i].children
                            = ChildrenAfterRename(i, src, dst)
              /\ GetDentry(r.S, from).ino = NoIno
              /\ GetDentry(r.S, to).ino = src.ino
              /\ \A l \in LteIds :
                    LteExists(l) =>
                        IF r.S.ltes[l].alloc
                        THEN r.S.ltes[l].refcnt
                                = ltes[l].refcnt - StreamRefs(dst.ino, l)
                        ELSE ltes[l].refcnt = StreamRefs(dst.ino, l)

\* C19: rename(src, dst) onto an existing dst is rejected with EISDIR for a
\* non-directory onto a directory, with ENOTDIR for a directory onto a
\* non-directory and with ENOTEMPTY for a directory onto a directory that has
\* children; a rejected rename changes neither the dentries nor the
\* descriptors; an accepted one removes dst, each of its streams giving up
\* one reference to its descriptor, and leaves src under the parent of dst
\* with the new name and nowhere else.
C19_RenameContract ==
    FsAlive =>
        \A from \in NameSeqs, to \in NameSeqs :
            LET src == GetDentry(FsState, from)
                dst == GetDentry(FsState, to)
            IN  /\ WimfsRename(FsState, from, to).ret # RET_OK
                      => WimfsRename(FsState, from, to).S = FsState
                /\ (/\ ~IntoItself(from, to)
                    /\ src.ino # NoIno /\ dst.ino # NoIno
                    /\ <<src.parent, src.name>> # <<dst.parent, dst.name>>)
                      => RenameOntoExisting(from, to)

\* mkdir and mknod in a state that may have no room for a new inode
MkdirIfRoom(S, p) ==
    IF FreeInoIds(S) = {} THEN Err(S, "-ENOMEM") ELSE WimfsMkdir(S, p)

MknodIfRoom(S, p) ==
    IF FreeInoIds(S) = {} THEN Err(S, "-ENOMEM")
    ELSE WimfsMknod(S, [names |-> p, stream |-> ""], FALSE)

\* mkdir(p), then mknod(p/f), then rmdir(p)
MkdirMknodRmdir(p, f) ==
    LET m == MkdirIfRoom(FsState, p)
        k == MknodIfRoom(m.S, Append(p, f))
    IN  [mkdir |-> m, mknod |-> k, rmdir |-> WimfsRmdir(k.S, p)]

\* mkdir(p), then rmdir(p) twice
MkdirRmdirTwice(p) ==
    LET m == MkdirIfRoom(FsState, p)
        r == WimfsRmdir(m.S, p)
    IN  [mkdir |-> m, rmdir |-> r, again |-> WimfsRmdir(r.S, p)]

\* what rmdir(p) owes in the current state, for a path that does not
\* resolve or resolves to a directory
RmdirOwes(p) ==
    LET d == GetDentry(FsState, p)
        r == WimfsRmdir(FsState, p)
    IN  IF d.ino = NoIno
        THEN r.ret = "-ENOENT" /\ r.S = FsState
        ELSE IF ~IsDirectory(FsState, d.ino) THEN TRUE
        ELSE IF inodes[d.ino].children # {}
        THEN r.ret = "-ENOTEMPTY" /\ r.S = FsState
        ELSE /\ r.ret = RET_OK
             /\ r.S.fault = "none"
             /\ GetDentry(r.S, p).ino = NoIno
             /\ r.S.inodes[d.parent].children
                   = inodes[d.parent].children \ {<<d.name, d.ino>>}

\* C20: rmdir(path) returns ENOENT when the path does not resolve, ENOTEMPTY
\* when the directory has a child, the tree being left as it was, and 0 for
\* an empty directory, whose path no longer resolves afterwards; after a
\* mkdir(d) that succeeds, rmdir(d) returns 0 and a second rmdir(d) ENOENT,
\* and after mkdir(d) and mknod(d/f) rmdir(d) returns ENOTEMPTY.
C20_RmdirContract ==
    FsAlive =>
        \A p \in NameSeqs :
            /\ RmdirOwes(p)
            /\ MkdirRmdirTwice(p).mkdir.ret = RET_OK =>
                  /\ MkdirRmdirTwice(p).rmdir.ret = RET_OK
                  /\ MkdirRmdirTwice(p).again.ret = "-ENOENT"
            /\ \A f \in Names :
                  (/\ MkdirMknodRmdir(p, f).mkdir.ret = RET_OK
                   /\ MkdirMknodRmdir(p, f).mknod.ret = RET_OK) =>
                      /\ MkdirMknodRmdir(p, f).rmdir.ret = "-ENOTEMPTY"
                      /\ MkdirMknodRmdir(p, f).rmdir.S
                            = MkdirMknodRmdir(p, f).mknod.S

\* an rmdir has just removed a directory, and two inodes are free for a
\* mkdir and a mknod inside the new directory
C20_Witness ==
    /\ FsAlive
    /\ fslast.op = "rmdir" /\ fslast.ret = RET_OK
    /\ \E p \in NameSeqs, f \in Names :
          /\ MkdirMknodRmdir(p, f).mkdir.ret = RET_OK
          /\ MkdirMknodRmdir(p, f).mknod.ret = RET_OK

\* the size of the stream that path names, 0 when it has no blob
StreamSize(path) ==
    LET r == LookupResource(FsState, path, AdsOk, FALSE)
    IN  IF r.lte = NoLte THEN 0 ELSE WimResourceSize(FsState, r.lte)

TruncateToSameSize(path) ==
    WimfsTruncate(FsState, path, AdsOk, StreamSize(path),
                  [at |-> "none", k |-> 0])

\* C21: truncate(path, size) with size equal to the current size of the
\* stream changes nothing: no staging file, no descriptor created, replaced,
\* split or re-keyed, every refcnt as before, whether the stream is held in
\* the archive or staged.
C21_TruncateToSameSizeIsNoOp ==
    (FsAlive /\ RoomToStage) =>
        \A path \in Paths :
            LET r == LookupResource(FsState, path, AdsOk, FALSE)
            IN  (r.ret = RET_OK /\ NotSymlink(r)) =>
                    /\ TruncateToSameSize(path).ret = RET_OK
                    /\ TruncateToSameSize(path).S = FsState

\* the offsets and sizes of the reads: up to one past the end of the blob
ReadOffsets == 0..(MaxLen + 1)
ReadSizes == 0..(MaxLen + 1)

\* handle h is on a blob that is read from the archive
OnArchiveBlob(h) ==
    LET l == inodes[h[1]].fds[h[2]].f_lte
    IN  LteExists(l) /\ ltes[l].location = "in_wim"

\* what read(off, size) owes through handle h on an archive blob
ArchiveReadOwes(h, off, size) ==
    LET blob == ltes[inodes[h[1]].fds[h[2]].f_lte].content
        r == WimfsRead(FsState, h[1], h[2], off, size, FALSE)
        n == Min(size, Len(blob) - off)
    IN  IF off > Len(blob) THEN r.ret = "-EOVERFLOW"
        ELSE /\ r.ret = RET_OK
             /\ Len(r.data) = n
             /\ \A i \in 1..n : r.data[i] = blob[off + i]

\* C22: through a handle on a blob of length L read from the archive,
\* read(off, size) returns EOVERFLOW when off > L and otherwise exactly
\* min(size, L - off) bytes, the bytes of the blob from off on (none when
\* off = L); through a handle of a stream without a blob it returns 0 bytes.
\* The reads are those in which the archive itself can be read; when it
\* cannot, the call returns EIO.
C22_ReadFromArchive ==
    FsAlive =>
        \A h \in OpenHandles, off \in ReadOffsets, size \in ReadSizes :
            /\ OnArchiveBlob(h) =>
                  /\ ArchiveReadOwes(h, off, size)
                  /\ off <= Len(ltes[inodes[h[1]].fds[h[2]].f_lte].content) =>
                        WimfsRead(FsState, h[1], h[2], off, size, TRUE).ret
                            = "-EIO"
            /\ inodes[h[1]].fds[h[2]].f_lte = NoLte =>
                  WimfsRead(FsState, h[1], h[2], off, size, FALSE)
                      = [ret |-> RET_OK, data |-> <<>>]

\* a handle on an archive blob and a handle on a stream without a blob are
\* open, and reads can be made through both
C22_Witness ==
    /\ FsAlive
    /\ \E h \in OpenHandles : OnArchiveBlob(h)
    /\ \E h \in OpenHandles : inodes[h[1]].fds[h[2]].f_lte = NoLte

\* what one step of the table owes when it is an alloc_wimlib_fd
AllocStepOwes ==
    LET grown == fdt'.num_allocated_fds - fdt.num_allocated_fds
    IN  /\ \/ grown \in {0, fds_per_alloc}
           \/ (0 < grown /\ grown < fds_per_alloc
               /\ fdt'.num_allocated_fds = max_fds)
        /\ grown > 0 => fdt.num_opened_fds = fdt.num_allocated_fds
        /\ fdt.num_opened_fds < max_fds =>
              \/ fdt'.ret = "-ENOMEM"
              \/ /\ fdt'.ret = RET_OK
                 /\ fdt'.num_opened_fds = fdt.num_opened_fds + 1
                 /\ fdt'.idx \in fdt.null_slots
                        \cup (fdt.num_allocated_fds
                                ..(fdt'.num_allocated_fds - 1))
                 /\ fdt'.idx \notin fdt'.null_slots
        /\ fdt.num_opened_fds = max_fds =>
              /\ fdt'.ret = "-EMFILE"
              /\ fdt'.num_allocated_fds = fdt.num_allocated_fds
              /\ fdt'.num_opened_fds = fdt.num_opened_fds
              /\ fdt'.null_slots = fdt.null_slots
              /\ fdt'.lte_opened_fds = fdt.lte_opened_fds

\* without a failure of allocation the alloc_wimlib_fd does not return ENOMEM
AllocSucceedsBelowCap ==
    \A has_lte \in BOOLEAN, readonly \in BOOLEAN :
        fdt.num_opened_fds < max_fds =>
            AllocWimlibFdInTable(fdt, has_lte, readonly, "none").ret = RET_OK

\* C23: an inode never has more than 65 535 slots for handles; the table
\* grows by 8 slots, by fewer when 8 would pass 65 535, and only when every
\* slot is taken; while fewer than 65 535 handles are open an allocation
\* that has the memory it asks for succeeds; with 65 535 handles open it
\* returns EMFILE and leaves the table and every counter as they were.
C23_HandleTableCap ==
    /\ [](/\ fdt.num_allocated_fds <= max_fds
          /\ fdt.num_opened_fds
                = fdt.num_allocated_fds - Cardinality(fdt.null_slots)
          /\ \A i \in fdt.null_slots : 0 <= i /\ i < fdt.num_allocated_fds
          /\ AllocSucceedsBelowCap)
    /\ [][fdt'.call = "alloc" => AllocStepOwes]_vars

\* alloc_wimlib_fd has returned EMFILE on a table of 65 535 open handles
C23_Witness ==
    /\ fdt.call = "alloc" /\ fdt.ret = "-EMFILE"
    /\ fdt.num_opened_fds = max_fds /\ fdt.num_allocated_fds = max_fds

\* C24: wimlib_mount_image returns 0 only when fuse_main was called and
\* ended with 0, and every failure on its way (a parameter, the split set,
\* a split archive mounted read-write, the image, the lock, the names of the
\* queues, memory, the staging directory, the host) gives a code other than 0.
C24_MountReturnsZeroOnlyAfterHost ==
    mnt.pc = "returned" =>
        /\ mnt.ret = RET_OK => mnt.fuse_main = "ended with 0"
        /\ (\/ mnt.null_param
            \/ (mnt.readwrite /\ mnt.total_parts # 1)
            \/ (mnt.fail # "none" /\ MountStepMade(mnt, mnt.fail)))
              => mnt.ret # RET_OK

\* the steps of the handler other than the sending of UNMOUNT_FINISHED
StepsBeforeFinished ==
    {"request", "daemon_info", "drain", "rehash", "write", "delete_staging"}

\* C25: in the handling of an UNMOUNT_REQUEST the daemon sends DAEMON_INFO
\* before the commit starts, and the commit runs only when DAEMON_INFO was
\* sent; it sends UNMOUNT_FINISHED after the commit and the deletion of the
\* staging directory have ended, once, as the last step of the handler, and
\* nothing after it: the message loop is left.  (Sending is the call of
\* send_unmount_finished_msg; whether mq_send delivers is its result.)
C25_HandlerOrder ==
    /\ [](CommitRan =>
            /\ HasOkEv(dlog, "daemon_info")
            /\ IdxOf("daemon_info") < IdxOf("drain"))
    /\ [](HasEv(dlog, "finished") =>
            /\ Cardinality(EvsOf(dlog, "finished")) = 1
            /\ IdxOf("finished") = Len(dlog)
            /\ \A ev \in StepsBeforeFinished :
                  \A i \in EvsOf(dlog, ev) : i < IdxOf("finished")
            /\ dpc # "loop")
    /\ []((dpc = "exited" /\ HasEv(dlog, "request"))
            => HasEv(dlog, "finished"))
    /\ [][HasEv(dlog, "finished") => (dlog' = dlog /\ dpc' # "loop")]_vars

\* a commit ran to its end, the staging directory was deleted and
\* UNMOUNT_FINISHED was sent: the daemon has left its loop
C25_Witness ==
    /\ HasOkEv(dlog, "daemon_info") /\ HasOkEv(dlog, "write")
    /\ HasOkEv(dlog, "delete_staging") /\ FinishedSent
    /\ dpc = "exited"

\* C4: a call whose staging fails leaves every handle, every descriptor, the
\* stream pointers, the store, the staging list and the staging directory as
\* they were before the call.
C4_FailedStagingChangesNothing ==
    [][fslast'.branch = "failed"
       => UNCHANGED <<inodes, ltes, sfiles, staging_list>>]_vars

\* a staging failed when it opened a staging file descriptor for a handle
\* that was already open on the stream
C4_Witness ==
    /\ fslast.branch = "failed" /\ fslast.ret = "-EMFILE"
    /\ \E k \in FdSlots :
          /\ inodes[fslast.ino].fds[k].open
          /\ inodes[fslast.ino].fds[k].stream_id = fslast.sid
          /\ inodes[fslast.ino].fds[k].f_lte = fslast.old
          /\ inodes[fslast.ino].fds[k].staging_fd = NoStagingFd
    /\ \A f \in FileIds : sfiles[f].exists
          => \E l \in LteIds : ltes[l].alloc /\ ltes[l].staging_file = f

(***************************************************************************)
(* Properties of the commit                                                *)
(***************************************************************************)
StagedLtes ==
    {l \in LteIds : ltes[l].alloc /\ ltes[l].location = "in_staging_file"}

\* the (inode, stream) pairs whose stream points to l
StreamsOn(l) ==
    {t \in InoIds \X (0..MaxStreamId) :
        /\ inodes[t[1]].alloc
        /\ t[2] \in StreamsOf(t[1])
        /\ InodeStreamLte(inodes[t[1]], t[2]) = l}

RehashKinds == {"merged", "discarded", "rekeyed"}

\* a turn of the second loop of rebuild_wim() that returned 0
RehashedOne == commit' # commit /\ commit'.kind \in RehashKinds

\* C26: in the commit the closing of the handles of all staged blobs is
\* complete before the first staging file is hashed, and every staged blob
\* is rehashed before the archive is written; when the hashing starts no
\* handle with an open staging descriptor is left on a staged blob, and the
\* num_opened_fds of every staged blob is 0.
C26_DrainBeforeHashBeforeWrite ==
    /\ [](commit.pc = "drained" =>
             \A l \in StagedLtes :
                /\ \E k \in 1..Len(commit.todo) : commit.todo[k] = l
                /\ \A h \in HandlesOn(l) :
                      inodes[h[1]].fds[h[2]].staging_fd = NoStagingFd
                /\ ltes[l].num_opened_fds = 0)
    /\ [][RehashedOne => commit.pc \in {"drained", "hashing"}]_vars
    /\ [][commit' # commit /\ commit'.kind = "write"
             => commit.pc = "rehashed" /\ commit.todo = <<>>
                /\ StagedLtes = {}]_vars

\* C27: when the rehashing finds the real digest of a staged blob on a
\* descriptor already in the table, that descriptor's refcnt grows by the
\* staged descriptor's refcnt, every stream that pointed to the staged
\* descriptor points to the existing one, and the staged descriptor is
\* freed; after the rehashing no two descriptors of the table have the same
\* digest and every refcnt is the sum of link_count over the streams that
\* point to the descriptor.
C27_MergeOfDuplicates ==
    /\ [][RehashedOne /\ commit'.kind = "merged" =>
             LET l == commit'.lte
                 d == commit'.dup
             IN  /\ ltes'[d].refcnt = ltes[d].refcnt + ltes[l].refcnt
                 /\ ltes'[d].alloc /\ ltes'[d].in_table
                 /\ ~ltes'[l].alloc
                 /\ \A t \in StreamsOn(l) :
                       InodeStreamLte(inodes'[t[1]], t[2]) = d]_vars
    /\ [](commit.pc \in {"rehashed", "written"} =>
             /\ \A a, b \in LteIds :
                   /\ ltes[a].alloc /\ ltes[a].in_table
                   /\ ltes[b].alloc /\ ltes[b].in_table
                   /\ ltes[a].hash = ltes[b].hash
                   => a = b
             /\ C1_RefcntIsSumOfLinkCounts)

\* C28: after a rehashing that succeeded no descriptor of the table is in a
\* staging file: each staged blob was merged into an existing descriptor, or
\* (empty staging file) freed with its stream left without a blob, or given
\* its real digest, the location in_file_on_disk and the size of the staging
\* file; no stream points to a descriptor that was freed.
C28_NoStagedBlobAfterRehash ==
    /\ [](commit.pc \in {"rehashed", "written"} =>
             /\ StagedLtes = {}
             /\ \A l \in LteIds : ~ltes[l].alloc => StreamsOn(l) = {})
    /\ [][RehashedOne =>
             LET l == commit'.lte
                 content == sfiles[ltes[l].staging_file].content
             IN  /\ l \in StagedLtes
                 /\ \/ /\ commit'.kind = "merged"
                       /\ ~ltes'[l].alloc
                       /\ ltes'[commit'.dup].alloc
                       /\ ltes'[commit'.dup].hash = Sha1(content)
                    \/ /\ commit'.kind = "discarded"
                       /\ Len(content) = 0
                       /\ ~ltes'[l].alloc
                       /\ \A t \in StreamsOn(l) :
                             InodeStreamLte(inodes'[t[1]], t[2]) = NoLte
                    \/ /\ commit'.kind = "rekeyed"
                       /\ ltes'[l].alloc /\ ltes'[l].in_table
                       /\ ltes'[l].location = "in_file_on_disk"
                       /\ ltes'[l].hash = Sha1(content)
                       /\ WimResourceSize([ltes |-> ltes', sfiles |-> sfiles'],
                                          l) = Len(content)]_vars

(***************************************************************************)
(* Properties of open and release                                          *)
(***************************************************************************)
\* where wimfs_open() fails after extract_resource_to_staging_dir() returned
OpenFailuresAfterStaging == {"alloc_fd", "open_fd"}

\* C29: an open that returns an error leaves no partial mutation: when a
\* writable open of a stream that is not staged fails in alloc_wimlib_fd or
\* in the open of the staging descriptor, the stream points to the descriptor
\* it had, no staged descriptor and no staging file made by the call is left,
\* and refcnt, num_opened_fds and the tables of handles are as before.
C29_FailedOpenChangesNothing ==
    FsAlive /\ RoomToStage =>
        \A path \in Paths, flags \in {"O_WRONLY", "O_RDWR"},
           at \in OpenFailuresAfterStaging :
            LET look == LookupResource(FsState, path, AdsOk, FALSE)
                r == WimfsOpen(FsState, path, AdsOk, WimfsCtxReadonly, flags,
                               [at |-> at, k |-> 0])
            IN  /\ look.ret = RET_OK
                /\ NotSymlink(look) /\ HasFreeSlot(look)
                /\ ~IsStaged(FsState, look.lte)
                /\ r.ret # RET_OK
                => /\ r.S.inodes = inodes
                   /\ r.S.ltes = ltes
                   /\ r.S.sfiles = sfiles
                   /\ r.S.staging_list = staging_list

\* the flags open() is called with: a read-only mount rejects the others
\* before they reach the daemon
FlagsOfMount == IF WimfsCtxReadonly THEN {"O_RDONLY"} ELSE OpenFlags

\* open(path, flags) followed by the release of the handle it returned;
\* before_alloc is the state in which wimfs_open() calls alloc_wimlib_fd(),
\* after the staging a writable open does first
OpenThenRelease(path, flags) ==
    LET look == LookupResource(FsState, path, AdsOk, FALSE)
        slot == FirstFreeSlot(inodes[look.ino])
        open == WimfsOpen(FsState, path, AdsOk, WimfsCtxReadonly, flags,
                          [at |-> "none", k |-> 0])
    IN  [ino |-> look.ino, slot |-> slot, open |-> open,
         before_alloc |->
             WimfsOpen(FsState, path, AdsOk, WimfsCtxReadonly, flags,
                       [at |-> "alloc_fd", k |-> 0]).S,
         release |-> WimfsRelease(open.S, look.ino, slot).S]

OpensHere(path, flags) ==
    LET look == LookupResource(FsState, path, AdsOk, FALSE)
    IN  /\ look.ret = RET_OK
        /\ NotSymlink(look) /\ HasFreeSlot(look)
        /\ OpenThenRelease(path, flags).open.ret = RET_OK

InodeToStbuf(S, l) ==
    IF l = NoLte THEN 0 ELSE WimResourceSize(S, l)

\* wimfs_getattr(): the lookup admits directories; the size it reports
WimfsGetattr(S, path, ads_ok) ==
    LET r == LookupResource(S, path, ads_ok, TRUE)
    IN  IF r.ret # RET_OK THEN [ret |-> r.ret, st_size |-> 0]
        ELSE [ret |-> RET_OK, st_size |-> InodeToStbuf(S, r.lte)]

\* the bytes of the stream that path names
StreamContent(S, path, ads_ok) ==
    LET r == LookupResource(S, path, ads_ok, TRUE)
    IN  IF r.lte = NoLte THEN <<>>
        ELSE IF S.ltes[r.lte].location = "in_staging_file"
        THEN S.sfiles[S.ltes[r.lte].staging_file].content
        ELSE S.ltes[r.lte].content

\* the sizes truncate() is tried with: shorter than, equal to and longer than
\* the streams of the image
TruncateSizes == 0..(MaxLen + 1)

TruncateOf(path, size) ==
    WimfsTruncate(FsState, path, AdsOk, size, [at |-> "none", k |-> 0])

\* truncate(path, size) returned 0 and getattr reports size; the stream is a
\* prefix of what it was, filled up with zero bytes
TruncatedTo(path, size) ==
    LET t == TruncateOf(path, size)
    IN  /\ t.ret = RET_OK
        /\ WimfsGetattr(t.S, path, AdsOk).ret = RET_OK
        /\ WimfsGetattr(t.S, path, AdsOk).st_size = size
        /\ StreamContent(t.S, path, AdsOk) =
               Resize(StreamContent(FsState, path, AdsOk), size)

\* C31: after a truncate(path, size) that returns 0, getattr reports size
\* for the stream, whatever the stream was before: a blob of the archive
\* longer than size (the prefix is kept), a blob shorter than size (filled up
\* with zero bytes), a staged blob, and a stream without a blob, for which
\* size > 0 makes a staging file of size zero bytes and size = 0 creates
\* nothing and returns 0.
C31_TruncateSetsSize ==
    (FsAlive /\ RoomToStage) =>
        \A path \in Paths, size \in TruncateSizes :
            LET r == LookupResource(FsState, path, AdsOk, FALSE)
                t == TruncateOf(path, size)
            IN  (r.ret = RET_OK /\ NotSymlink(r)) =>
                    /\ t.ret = RET_OK => TruncatedTo(path, size)
                    /\ r.lte = NoLte =>
                          /\ TruncatedTo(path, size)
                          /\ size = 0 => t.S = FsState
                          /\ size > 0 =>
                                LET n == LookupResource(t.S, path, AdsOk,
                                                        FALSE).lte
                                IN  n # NoLte /\ IsStaged(t.S, n)

(***************************************************************************)
(* Properties of receive_message                                           *)
(***************************************************************************)
VersionTooHigh(m) == WIMLIB_VERSION_CODE < m.min_version
\* mq_timedreceive returned the whole message the header declares
WellSized(m) == m.bytes >= SizeofHdr /\ m.bytes = m.msg_size
\* the header declares more bytes than were received
Truncated(m) == m.msg_size > m.bytes

\* the unmount command's loop dropped the message at the head of its queue
DroppedByUnmount ==
    /\ upc' = "loop"
    /\ uctx' = uctx /\ uret' = uret
    /\ d2u' = Tail(d2u) /\ u2d' = u2d
    /\ mq_open' = mq_open /\ mq_linked' = mq_linked

\* the daemon's loop dropped the message at the head of its queue
DroppedByDaemon ==
    /\ dpc' = "loop"
    /\ dlog' = dlog /\ dret' = dret
    /\ archive' = archive /\ staging_dir' = staging_dir
    /\ u2d' = Tail(u2d) /\ d2u' = d2u
    /\ mq_open' = mq_open /\ mq_linked' = mq_linked

\* C32: a received message whose min_version is greater than the receiver's
\* version is dropped: no handler runs, nothing of the protocol state changes
\* (no commit, no timeout change, no status recorded), and the loop goes on
\* to wait for the next message, in the daemon and in the unmount command.
C32_TooHighVersionDropped ==
    [][/\ (U_Receive /\ VersionTooHigh(Head(d2u))) => DroppedByUnmount
       /\ (D_Receive /\ VersionTooHigh(Head(u2d))) => DroppedByDaemon]_vars

\* C32, amended: a received message of which mq_timedreceive returned as
\* many bytes as its header declares, and whose min_version is greater than
\* the receiver's version, is dropped and the loop goes on; a message that
\* fails the size test ends the loop whatever its min_version.
C32_WellSizedTooHighVersionDropped ==
    [][/\ (U_Receive /\ WellSized(Head(d2u)) /\ VersionTooHigh(Head(d2u)))
             => DroppedByUnmount
       /\ (D_Receive /\ WellSized(Head(u2d)) /\ VersionTooHigh(Head(u2d)))
             => DroppedByDaemon
       /\ (U_Receive /\ ~WellSized(Head(d2u)))
             => upc' = "done" /\ uret' = WIMLIB_ERR_INVALID_UNMOUNT_MESSAGE
       /\ (D_Receive /\ ~WellSized(Head(u2d)))
             => dpc' = "exited" /\ dret' = WIMLIB_ERR_INVALID_UNMOUNT_MESSAGE
      ]_vars

\* the daemon has dropped a message of a higher version that was in its
\* queue before the request of the unmount command, and waits with the
\* request at the head of the queue
C32_Witness ==
    /\ dpc = "loop" /\ dalive /\ upc = "loop"
    /\ injected = 1
    /\ u2d = <<UnmountRequestMsg(unmount_flags)>>
    /\ d2u = <<>> /\ ulast.kind = "none"
    /\ dlog = <<>>

\* C33: a received message whose header declares more bytes than were
\* received is malformed: no handler runs for it and the message loop of the
\* side that received it ends with WIMLIB_ERR_INVALID_UNMOUNT_MESSAGE, which
\* is what wimlib_unmount_image returns when it is the unmount command.
C33_TruncatedMessageEndsLoop ==
    [][/\ (U_Receive /\ Truncated(Head(d2u)))
             => /\ upc' = "done"
                /\ uret' = WIMLIB_ERR_INVALID_UNMOUNT_MESSAGE
                /\ uctx' = uctx
       /\ (D_Receive /\ Truncated(Head(u2d)))
             => /\ dpc' = "exited"
                /\ dret' = WIMLIB_ERR_INVALID_UNMOUNT_MESSAGE
                /\ dlog' = dlog
                /\ archive' = archive /\ staging_dir' = staging_dir]_vars

\* the unmount command received such a message and returned
C33_Witness ==
    /\ ulast.kind = "msg" /\ Truncated(ulast.msg)
    /\ upc = "done" /\ uret = WIMLIB_ERR_INVALID_UNMOUNT_MESSAGE

(***************************************************************************)
(* Properties of the daemon's message loop                                 *)
(***************************************************************************)
\* C34: the message loop of the daemon ends: when mq_timedreceive times out
\* (no message within the 5 seconds of the daemon's handler context, as when
\* the unmount command is gone before its request is in the queue), the
\* daemon leaves the loop with WIMLIB_ERR_TIMEOUT, no step of the request
\* handler has run, and the archive has not been rewritten.
C34_DaemonLoopTerminates ==
    /\ [](dpc = "loop" => <>(dpc # "loop"))
    /\ [][D_Timeout =>
             /\ dpc' = "exited" /\ dret' = WIMLIB_ERR_TIMEOUT
             /\ dlog' = dlog /\ archive' = archive
             /\ staging_dir' = staging_dir]_vars
    /\ [](dret = WIMLIB_ERR_TIMEOUT => (dlog = <<>> /\ archive = 0))

\* a read-write mount that was to be committed: the unmount command gave up
\* after the host was told to unmount, and the daemon timed out
C34_Witness ==
    /\ dpc = "exited" /\ dret = WIMLIB_ERR_TIMEOUT
    /\ host_unmounted /\ upc = "done"
    /\ "READWRITE" \in mount_flags /\ "COMMIT" \in unmount_flags
    /\ archive = 0 /\ staging_dir

(***************************************************************************)
(* The threads of a multi-threaded mount: alloc_wimlib_fd() and            *)
(* close_wimlib_fd() step by step.  Every step is one access to memory     *)
(* that other threads may access; a counter is counted up or down by a     *)
(* read and a write.  Two inodes share one blob.                           *)
(***************************************************************************)
Threads == {1, 2}
ThreadInodes == {1, 2}
\* how many opens a thread makes, and the slots of a table of handles, which
\* has room for every handle the threads can hold
MaxThreadOpens == 2
ThreadSlots == 0..(Cardinality(Threads) * MaxThreadOpens - 1)
NoThread == 0

\* if (lte && !readonly) lte->num_opened_fds++
LteCountedByOpen_CountsReadonly(has_lte, readonly) == has_lte

LteCountedByOpen(has_lte, readonly) == has_lte /\ ~readonly

IdleThread == [pc |-> "idle", ino |-> 0, idx |-> 0, tmp |-> 0, opens |-> 0,
               handles |-> {}]

ThreadsStart ==
    [started |-> TRUE,
     i_mutex |-> [i \in ThreadInodes |-> NoThread],
     num_opened_fds |-> [i \in ThreadInodes |-> 0],
     fds |-> [i \in ThreadInodes |-> {}],
     lte_num_opened_fds |-> 0,
     \* the thread that made the last step, and whether it held the mutex of
     \* the inode it works on
     last |-> [t |-> NoThread, locked |-> FALSE],
     t |-> [t \in Threads |-> IdleThread]]

\* thread t has made a step
Stepped(T, t) ==
    [T EXCEPT !.last = [t |-> t,
                        locked |-> T.i_mutex[T.t[t].ino] = t]]

\* pthread_mutex_lock() would block
Blocked(T, t) ==
    /\ T.t[t].pc \in {"alloc_lock", "put_lock"}
    /\ T.i_mutex[T.t[t].ino] # NoThread

\* one step of alloc_wimlib_fd() in thread t
AllocWimlibFdStep(T, t, readonly) ==
    LET me == T.t[t]
        i == me.ino
    IN  CASE me.pc = "alloc_lock" ->
               [T EXCEPT !.i_mutex[i] = t, !.t[t].pc = "alloc_slot"]
          [] me.pc = "alloc_slot" ->
               [T EXCEPT !.fds[i] = @ \cup {LeastOf(ThreadSlots \ T.fds[i])},
                         !.t[t].idx = LeastOf(ThreadSlots \ T.fds[i]),
                         !.t[t].tmp = T.num_opened_fds[i],
                         !.t[t].pc = "alloc_count"]
          [] me.pc = "alloc_count" ->
               [T EXCEPT !.num_opened_fds[i] = me.tmp + 1,
                         !.t[t].tmp = T.lte_num_opened_fds,
                         !.t[t].pc = IF LteCountedByOpen(TRUE, readonly)
                                     THEN "alloc_lte" ELSE "alloc_unlock"]
          [] me.pc = "alloc_lte" ->
               [T EXCEPT !.lte_num_opened_fds = me.tmp + 1,
                         !.t[t].pc = "alloc_unlock"]
          [] me.pc = "alloc_unlock" ->
               [T EXCEPT !.i_mutex[i] = NoThread,
                         !.t[t].handles = @ \cup {<<i, me.idx>>},
                         !.t[t].pc = "idle"]

\* one step of close_wimlib_fd() in thread t: lte_put_fd() with
\* lte_decrement_num_opened_fds(), then inode_put_fd()
CloseWimlibFdStep(T, t) ==
    LET me == T.t[t]
        i == me.ino
    IN  CASE me.pc = "put_lte" ->
               IF T.lte_num_opened_fds # 0
               THEN [T EXCEPT !.t[t].tmp = T.lte_num_opened_fds,
                              !.t[t].pc = "put_lte_count"]
               ELSE [T EXCEPT !.t[t].pc = "put_lock"]
          [] me.pc = "put_lte_count" ->
               [T EXCEPT !.lte_num_opened_fds = me.tmp - 1,
                         !.t[t].pc = "put_lock"]
          [] me.pc = "put_lock" ->
               [T EXCEPT !.i_mutex[i] = t, !.t[t].pc = "put_slot"]
          [] me.pc = "put_slot" ->
               [T EXCEPT !.fds[i] = @ \ {me.idx},
                         !.t[t].tmp = T.num_opened_fds[i],
                         !.t[t].pc = "put_count"]
          [] me.pc = "put_count" ->
               [T EXCEPT !.num_opened_fds[i] = me.tmp - 1,
                         !.t[t].pc = "put_unlock"]
          [] me.pc = "put_unlock" ->
               [T EXCEPT !.i_mutex[i] = NoThread,
                         !.t[t].pc = "idle"]

AllocPcs == {"alloc_lock", "alloc_slot", "alloc_count", "alloc_lte",
             "alloc_unlock"}
ClosePcs == {"put_lte", "put_lte_count", "put_lock", "put_slot", "put_count",
             "put_unlock"}

ThreadsOnly == UNCHANGED <<protoVars, imageVars, fdt, mnt, commit, xp, ucmd>>

\* the host calls wimfs_open() in thread t
H_Open ==
    \E t \in Threads, i \in ThreadInodes :
        /\ thr.t[t].pc = "idle"
        /\ thr.t[t].opens < MaxThreadOpens
        /\ thr' = [thr EXCEPT !.t[t].pc = "alloc_lock", !.t[t].ino = i,
                              !.t[t].opens = @ + 1,
                              !.last = [t |-> t, locked |-> FALSE]]
        /\ ThreadsOnly

\* the host calls wimfs_release() in thread t on a handle the thread opened
H_Release ==
    \E t \in Threads :
        /\ thr.t[t].pc = "idle"
        /\ \E h \in thr.t[t].handles :
              thr' = [thr EXCEPT !.t[t].pc = "put_lte", !.t[t].ino = h[1],
                                 !.t[t].idx = h[2],
                                 !.t[t].handles = @ \ {h},
                                 !.last = [t |-> t, locked |-> FALSE]]
        /\ ThreadsOnly

H_Alloc ==
    \E t \in Threads :
        /\ thr.t[t].pc \in AllocPcs
        /\ ~Blocked(thr, t)
        /\ thr' = AllocWimlibFdStep(Stepped(thr, t), t, WimfsCtxReadonly)
        /\ ThreadsOnly

H_Close ==
    \E t \in Threads :
        /\ thr.t[t].pc \in ClosePcs
        /\ ~Blocked(thr, t)
        /\ thr' = CloseWimlibFdStep(Stepped(thr, t), t)
        /\ ThreadsOnly

InitThreads ==
    /\ InitMounted({{}}, {"shared"})
    /\ fdt = NoTable /\ mnt = NoMount /\ commit = NoCommit
    /\ xp = NoExport /\ ucmd = FirstCommand
    /\ thr = ThreadsStart

NextThreads == H_Open \/ H_Release \/ H_Alloc \/ H_Close

SpecThreads == InitThreads /\ [][NextThreads]_vars

(***************************************************************************)
(* Properties of the threads                                               *)
(***************************************************************************)
\* the steps of alloc_wimlib_fd() and inode_put_fd() between lock and unlock
InCriticalSection(t) ==
    thr.t[t].pc \in {"alloc_slot", "alloc_count", "alloc_lte", "alloc_unlock",
                     "put_slot", "put_count", "put_unlock"}

\* no thread is inside a call
Quiescent == \A t \in Threads : thr.t[t].pc = "idle"

HandlesOfThreads(i) ==
    {h \in UNION {thr.t[t].handles : t \in Threads} : h[1] = i}

MaxExports == 2
\* the digests of the blobs; the zero hash is that of an empty stream
ZeroHash == 0
Hashes == 1..3
WIMLIB_ERR_RESOURCE_NOT_FOUND == "WIMLIB_ERR_RESOURCE_NOT_FOUND"
WIMLIB_ERR_IMAGE_NAME_COLLISION == "WIMLIB_ERR_IMAGE_NAME_COLLISION"
WIMLIB_ERR_XML == "WIMLIB_ERR_XML"
WIMLIB_ERR_METADATA_NOT_FOUND == "WIMLIB_ERR_METADATA_NOT_FOUND"

\* the images of the source archive: their names, and the link count and
\* the stream digests of each inode
SrcImageList ==
    << [name |-> "a",
        inodes |-> << [i_nlink |-> 1, hashes |-> <<1>>],
                      [i_nlink |-> 2, hashes |-> <<1, 2>>] >>],
       [name |-> "b",
        inodes |-> << [i_nlink |-> 1, hashes |-> <<ZeroHash, 2>>],
                      [i_nlink |-> 1, hashes |-> <<3>>] >>] >>

NoBlob == [present |-> FALSE, refcnt |-> 0, out_refcnt |-> 0,
           was_exported |-> FALSE]

\* what may fail in a call: the checksums, select_wim_image,
\* clone_blob_info after k clones, xml_export_image, append_image_metadata
ExportFailures ==
    {[at |-> a, image |-> i, k |-> 0] :
        a \in {"none", "checksum", "select", "xml", "append"},
        i \in 1..Len(SrcImageList)}
    \cup {[at |-> "clone", image |-> 0, k |-> k] : k \in 0..2}

\* blob_set_not_exported() on every blob of the table
BlobSetNotExported(blobs) ==
    [h \in Hashes |->
        IF blobs[h].present
        THEN [blobs[h] EXCEPT !.out_refcnt = 0, !.was_exported = FALSE]
        ELSE blobs[h]]

\* blob_rollback_export() on every blob of the table
BlobRollbackExport(blobs) ==
    [h \in Hashes |->
        IF ~blobs[h].present THEN blobs[h]
        ELSE IF blobs[h].was_exported THEN NoBlob
        ELSE [blobs[h] EXCEPT !.refcnt = @ - blobs[h].out_refcnt]]

\* inode_export_streams() from stream i on; X.clones counts the calls of
\* clone_blob_info
RECURSIVE InodeExportStreamsFrom(_, _, _, _, _)
InodeExportStreamsFrom(X, inode, i, gift, fail) ==
    IF i > Len(inode.hashes) THEN [X EXCEPT !.ret = RET_OK]
    ELSE LET hash == inode.hashes[i]
             counted(Y) ==
                 [Y EXCEPT !.blobs[hash].refcnt = @ + inode.i_nlink,
                           !.blobs[hash].out_refcnt = @ + inode.i_nlink]
             inserted ==
                 [X EXCEPT !.blobs[hash] =
                               [present |-> TRUE, refcnt |-> 0,
                                out_refcnt |-> 0, was_exported |-> TRUE],
                           !.src = IF gift THEN @ \ {hash} ELSE @,
                           !.clones = IF gift THEN @ ELSE @ + 1]
         IN  IF hash = ZeroHash
             THEN InodeExportStreamsFrom(X, inode, i + 1, gift, fail)
             ELSE IF X.blobs[hash].present
             THEN InodeExportStreamsFrom(counted(X), inode, i + 1, gift, fail)
             ELSE IF hash \notin X.src
             THEN [X EXCEPT !.ret = WIMLIB_ERR_RESOURCE_NOT_FOUND]
             ELSE IF ~gift /\ fail.at = "clone" /\ X.clones = fail.k
             THEN [X EXCEPT !.ret = WIMLIB_ERR_NOMEM]
             ELSE InodeExportStreamsFrom(counted(inserted), inode, i + 1,
                                         gift, fail)

InodeExportStreams(X, inode, gift, fail) ==
    InodeExportStreamsFrom(X, inode, 1, gift, fail)

\* image_for_each_inode(): inode_export_streams() until one fails
RECURSIVE ExportInodesFrom(_, _, _, _, _)
ExportInodesFrom(X, inodes_, j, gift, fail) ==
    IF j > Len(inodes_) THEN [X EXCEPT !.ret = RET_OK]
    ELSE LET Y == InodeExportStreams(X, inodes_[j], gift, fail)
         IN  IF Y.ret # RET_OK THEN Y
             ELSE ExportInodesFrom(Y, inodes_, j + 1, gift, fail)

\* the body of the loop over the source images, for image src_image
ExportOneImage(X, src_image, gift, fail) ==
    LET img == SrcImageList[src_image]
        here(at) == fail.at = at /\ fail.image = src_image
        Y == ExportInodesFrom(X, img.inodes, 1, gift, fail)
    IN  IF \E k \in 1..Len(X.xml) : X.xml[k] = img.name
        THEN [X EXCEPT !.ret = WIMLIB_ERR_IMAGE_NAME_COLLISION]
        ELSE IF here("select")
        THEN [X EXCEPT !.ret = WIMLIB_ERR_METADATA_NOT_FOUND]
        ELSE IF Y.ret # RET_OK THEN Y
        ELSE IF here("xml") THEN [Y EXCEPT !.ret = WIMLIB_ERR_XML]
        ELSE IF here("append")
        THEN [Y EXCEPT !.xml = Append(@, img.name),
                       !.ret = WIMLIB_ERR_NOMEM]
        ELSE [Y EXCEPT !.xml = Append(@, img.name),
                       !.images = Append(@, src_image),
                       !.ret = RET_OK]

RECURSIVE ExportImagesFrom(_, _, _, _, _)
ExportImagesFrom(X, src_image, end_src_image, gift, fail) ==
    IF src_image > end_src_image THEN [X EXCEPT !.ret = RET_OK]
    ELSE LET Y == ExportOneImage(X, src_image, gift, fail)
         IN  IF Y.ret # RET_OK THEN Y
             ELSE ExportImagesFrom(Y, src_image + 1, end_src_image, gift,
                                   fail)

\* the label out_rollback
ExportRollback(X, orig_dest_image_count) ==
    [X EXCEPT !.xml = SubSeq(@, 1, Min(Len(@), orig_dest_image_count)),
              !.images = SubSeq(@, 1, orig_dest_image_count),
              !.blobs = BlobRollbackExport(@)]

\* wimlib_export_image(); arg.all stands for WIMLIB_ALL_IMAGES
WimlibExportImage(X, arg, gift, fail) ==
    LET start_src_image == IF arg.all THEN 1 ELSE arg.image
        end_src_image == IF arg.all THEN Len(SrcImageList) ELSE arg.image
        orig_dest_image_count == Len(X.images)
        enabled == [X EXCEPT !.blobs = BlobSetNotExported(@), !.clones = 0]
        Y == ExportImagesFrom(enabled, start_src_image, end_src_image, gift,
                              fail)
    IN  IF fail.at = "checksum" THEN [X EXCEPT !.ret = WIMLIB_ERR_NOMEM]
        ELSE IF Y.ret # RET_OK
        THEN ExportRollback(Y, orig_dest_image_count)
        ELSE [Y EXCEPT !.src_freed = gift]

ExportArgs ==
    {[all |-> TRUE, image |-> 0]}
    \cup {[all |-> FALSE, image |-> i] : i \in 1..Len(SrcImageList)}

\* the archives before the first export: the destination holds no blob or
\* the blob with digest 1, and no image or an image named as the second
\* image of the source; the source lacks no blob or the blob with digest 3
ExportStarts ==
    {[called |-> TRUE, n |-> 0, ret |-> RET_OK, clones |-> 0,
      src |-> s, src_freed |-> FALSE,
      blobs |-> [h \in Hashes |->
                   IF h \in d
                   THEN [present |-> TRUE, refcnt |-> 1, out_refcnt |-> 0,
                         was_exported |-> FALSE]
                   ELSE NoBlob],
      images |-> im, xml |-> [k \in 1..Len(im) |-> "b"],
      before |-> [blobs |-> [h \in Hashes |-> NoBlob], images |-> <<>>,
                  xml |-> <<>>],
      fail |-> "none"] :
        s \in {Hashes, Hashes \ {3}}, d \in {{}, {1}}, im \in {<<>>, <<3>>}}

X_Export ==
    \E arg \in ExportArgs, gift \in BOOLEAN, fail \in ExportFailures :
        /\ xp.called /\ xp.n < MaxExports /\ ~xp.src_freed
        /\ fail.at \in {"select", "xml", "append"} =>
              (arg.all \/ arg.image = fail.image)
        /\ xp' = [WimlibExportImage(xp, arg, gift, fail) EXCEPT
                     !.n = xp.n + 1,
                     !.before = [blobs |-> xp.blobs, images |-> xp.images,
                                 xml |-> xp.xml],
                     !.fail = fail.at]
        /\ UNCHANGED <<protoVars, imageVars, fdt, mnt, commit, thr, ucmd>>

InitExport ==
    /\ InitMounted({{}}, {"shared"})
    /\ fdt = NoTable /\ mnt = NoMount /\ commit = NoCommit
    /\ thr = NoThreads /\ ucmd = FirstCommand
    /\ xp \in ExportStarts

NextExport == X_Export

SpecExport == InitExport /\ [][NextExport]_vars

(***************************************************************************)
(* Properties of the export                                                *)
(***************************************************************************)
\* the destination archive is as it was before the call
DestinationAsBefore ==
    /\ \A h \in Hashes :
          /\ xp.blobs[h].present = xp.before.blobs[h].present
          /\ xp.blobs[h].refcnt = xp.before.blobs[h].refcnt
    /\ xp.images = xp.before.images
    /\ xp.xml = xp.before.xml

\* the call got as far as the loop over the images
ExportStarted == xp.n > 0 /\ xp.fail # "checksum"

\* C36: a wimlib_export_image that fails after it exported streams or
\* images leaves the destination archive as it was: every blob's refcnt has
\* its value of before the call (the references the export added, counted in
\* out_refcnt, are subtracted), every blob the export inserted is out of the
\* destination table, the image count and the XML image list are as before;
\* after a call that succeeds out_refcnt is 0 in every blob.
C36_FailedExportRolledBack ==
    ExportStarted =>
        /\ xp.ret # RET_OK => DestinationAsBefore
        /\ xp.ret = RET_OK =>
              \A h \in Hashes :
                  xp.blobs[h].present => xp.blobs[h].out_refcnt = 0

(***************************************************************************)
(* The mounted filesystem serving every call that changes the names,       *)
(* among them the rename of a directory to a path below itself, for which  *)
(* wimfs_rename() has no test of its own                                   *)
(***************************************************************************)
RenameIntoItself ==
    \E from \in NameSeqs, to \in NameSeqs :
        /\ FsAlive
        /\ IntoItself(from, to)
        /\ FsCall("rename", WimfsRename(FsState, from, to))

NextNames ==
    \/ Mkdir \/ Mknod \/ Symlink \/ Link \/ Unlink \/ Rmdir \/ Rename
    \/ RenameIntoItself

SpecNames == InitTree /\ [][NextNames]_vars

(***************************************************************************)
(* Properties of the tree of dentries                                      *)
(***************************************************************************)
\* the dentries: (parent, name, inode), one for each child of a directory
\* that has not been freed
Dentries ==
    {d \in InoIds \X Names \X InoIds :
        <<d[2], d[3]>> \in inodes[d[1]].children}

\* the inodes that are n or fewer dentries below those of set
RECURSIVE Below(_, _)
Below(set, n) ==
    IF n = 0 THEN set
    ELSE Below(set \cup {d[3] : d \in {e \in Dentries : e[1] \in set}}, n - 1)

ReachableFromRoot == Below({RootIno}, MaxInodes + 1)

\* the inodes strictly below inode i
Descendants(i) ==
    Below({d[3] : d \in {e \in Dentries : e[1] = i}}, MaxInodes + 1)

\* C37: after any sequence of mkdir, mknod, symlink, link, unlink, rmdir and
\* rename (a rename of a directory to a path below itself included) the
\* dentries form a tree with the root dentry as its root: every dentry is
\* reachable from the root, every dentry of a directory is the child of
\* exactly one parent, a file has as many dentries as links, and no
\* directory is below itself.
C37_DentriesFormATree ==
    /\ \A d \in Dentries :
          /\ d[1] \in ReachableFromRoot
          /\ inodes[d[1]].alloc /\ IsDirectory(FsState, d[1])
          /\ inodes[d[3]].alloc
    /\ \A i \in InoIds \ {RootIno} :
          inodes[i].alloc =>
              /\ Cardinality({d \in Dentries : d[3] = i})
                     = inodes[i].link_count
              /\ IsDirectory(FsState, i) =>
                     Cardinality({d \in Dentries : d[3] = i}) = 1
    /\ \A i \in InoIds : i \notin Descendants(i)
    /\ \A d \in Dentries : d[3] # RootIno

(***************************************************************************)
(* Properties of the daemon's handling of several requests                 *)
(***************************************************************************)
\* the steps of msg_unmount_request_handler that are logged
HandlerEvents ==
    {"request", "daemon_info", "drain", "rehash", "write", "delete_staging",
     "finished"}

\* an UNMOUNT_REQUEST that message_loop would hand to the handler
IsHandledRequest(m) ==
    m.msg_type = MSG_TYPE_UNMOUNT_REQUEST /\ ReceiveMessage(m) = "dispatch"

\* C38: for one mount the daemon acts on at most one UNMOUNT_REQUEST: every
\* step of the handler (the commit pipeline's drain, rehash and write, the
\* deletion of the staging directory, the sending of UNMOUNT_FINISHED) runs
\* at most once and the archive is written at most once, however many
\* requests are queued.
C38_AtMostOneRequestActedOn ==
    /\ \A ev \in HandlerEvents : Cardinality(EvsOf(dlog, ev)) <= 1
    /\ archive <= 1

\* the daemon has handled one request to its end while another request that
\* the loop would dispatch was still queued behind it
C38_Witness ==
    /\ HasEv(dlog, "finished")
    /\ dpc = "exited"
    /\ \E i \in 1..Len(u2d) : IsHandledRequest(u2d[i])

(***************************************************************************)
(* Several unmount commands on one mount point, one after the other.  The  *)
(* queue names are derived from the mount point, so every command and the  *)
(* daemon of every mount session on it use the same names.  dpc is         *)
(* "mounted" from the start: before D_Mount the daemon takes no step.      *)
(***************************************************************************)
MaxUnmountCommands == 2

\* unlink_message_queues
UnlinkMessageQueues ==
    /\ mq_linked' = FALSE
    /\ u2d' = IF mq_open = {} THEN <<>> ELSE u2d
    /\ d2u' = IF mq_open = {} THEN <<>> ELSE d2u
    /\ UNCHANGED mq_open

\* wimlib_mount_image: the names are unlinked before the daemon is started
D_Mount ==
    /\ ucmd.premount
    /\ ucmd' = [ucmd EXCEPT !.premount = FALSE]
    /\ UnlinkMessageQueues
    /\ UNCHANGED <<mount_flags, daemon_pid, dalive, host_unmounted,
                   staging_dir, archive, injected, upc, unmount_flags, uctx,
                   uret, ulast, dpc, dret, dlog>>
    /\ UNCHANGED <<imageVars, fdt, mnt, commit, thr, xp>>

\* wimlib_unmount_image is called again after an earlier call has returned
\* or its process has died: init_wimfs_context
U_Start ==
    /\ ~ucmd.premount
    /\ upc \in {"done", "dead"}
    /\ ucmd.n < MaxUnmountCommands
    /\ ucmd' = [ucmd EXCEPT !.n = @ + 1]
    /\ upc' = "start"
    /\ unmount_flags' \in UnmountFlagSets
    /\ uctx' = InitUnmountCtx
    /\ uret' = "none"
    /\ ulast' = Last("none", NoMsg, dalive)
    /\ UNCHANGED <<mount_flags, daemon_pid, dalive, host_unmounted,
                   staging_dir, archive, u2d, d2u, mq_linked, mq_open,
                   injected, dpc, dret, dlog>>
    /\ UNCHANGED <<imageVars, fdt, mnt, commit, thr, xp>>

\* the process of the unmount command is killed between open_message_queues
\* and close_message_queues: its descriptors are closed, nothing is unlinked
U_Die ==
    /\ upc \in {"opened", "sent", "loop"}
    /\ upc' = "dead"
    /\ DropDescriptors("U")
    /\ ucmd' = [ucmd EXCEPT !.stale =
                   IF upc = "opened" THEN @ ELSE @ \cup {unmount_flags}]
    /\ UNCHANGED <<mount_flags, daemon_pid, dalive, host_unmounted,
                   staging_dir, archive, injected, unmount_flags, uctx, uret,
                   ulast, dpc, dret, dlog>>
    /\ UNCHANGED <<imageVars, fdt, mnt, commit, thr, xp>>

\* before the mount: what an unmount command that died on this mount point
\* during an earlier mount session has left under the names
InitAgain ==
    /\ mount_flags \in MountFlagSets
    /\ daemon_pid \in Pids
    /\ dalive = TRUE
    /\ host_unmounted = FALSE
    /\ staging_dir = ("READWRITE" \in mount_flags)
    /\ archive = 0
    /\ \E left \in SUBSET UnmountFlagSets :
          /\ Cardinality(left) <= 1
          /\ mq_linked = (left # {})
          /\ u2d = IF left = {} THEN <<>>
                   ELSE <<UnmountRequestMsg(CHOOSE f \in left : TRUE)>>
          /\ ucmd = [n |-> 0, stale |-> left, premount |-> TRUE]
    /\ d2u = <<>>
    /\ mq_open = {}
    /\ injected = 0
    /\ upc = "done"
    /\ unmount_flags = {}
    /\ uctx = InitUnmountCtx
    /\ uret = "none"
    /\ ulast = Last("none", NoMsg, TRUE)
    /\ dpc = "mounted"
    /\ dret = "none"
    /\ dlog = <<>>
    /\ InitImage("shared")
    /\ fdt = NoTable /\ mnt = NoMount /\ commit = NoCommit
    /\ thr = NoThreads /\ xp = NoExport

NextAgain == D_Mount \/ U_Start \/ U_Die \/ UnmountStep \/ DaemonStep

SpecUnmountAgain == InitAgain /\ [][NextAgain]_vars

(***************************************************************************)
(* Properties of the request the daemon acts on                            *)
(***************************************************************************)
\* the unmount command has returned after it received UNMOUNT_FINISHED
ReceivedFinished ==
    /\ upc = "done"
    /\ ulast.kind = "msg"
    /\ ulast.msg.msg_type = MSG_TYPE_UNMOUNT_FINISHED
    /\ UnmountReceive(ulast.msg, uctx).ret = MSG_BREAK_LOOP

\* C39: the unmount flags the daemon acts on are those of the request sent
\* by the unmount command that receives the UNMOUNT_FINISHED, not those of
\* a request left in the queue by an earlier mount session or by an earlier
\* command that failed or died.
C39_FlagsOfTheCommandServed ==
    ReceivedFinished =>
        /\ HasEv(dlog, "request")
        /\ TheEv(dlog, "request").flags = unmount_flags

(***************************************************************************)
(* The commit of an image whose file has two streams                       *)
(***************************************************************************)
StreamImages == {"shared", "streams"}

InitCommitStreams ==
    /\ InitMounted(FsMountFlagSets, StreamImages)
    /\ fdt = NoTable /\ mnt = NoMount /\ commit = NoCommit /\ NoSide

SpecCommitStreams == InitCommitStreams /\ [][NextCommit]_vars

(***************************************************************************)
(* Properties of the staging list                                          *)
(***************************************************************************)
\* the descriptors in the store whose location is in_staging_file
StagedInStore ==
    {l \in LteIds : /\ ltes[l].alloc
                    /\ ltes[l].in_table
                    /\ ltes[l].location = "in_staging_file"}

StagingListSet == {staging_list[i] : i \in 1..Len(staging_list)}

\* the daemon serves calls or has closed the handles, and has not aborted
BeforeRehash ==
    /\ commit.pc \in {"none", "drained"}
    /\ fslast.ret \notin {"ASSERT", "SIGSEGV"}

\* the staging list holds each staged descriptor of the store once, and
\* nothing else
StagingListIsTheStagedOnes ==
    BeforeRehash =>
        /\ StagingListSet = StagedInStore
        /\ Cardinality(StagingListSet) = Len(staging_list)

\* lte_inode of a descriptor of the staging list is an inode that is not freed
OwnerInodesLive ==
    BeforeRehash =>
        \A l \in StagingListSet :
            ltes[l].alloc => inodes[ltes[l].lte_inode].alloc

\* neither loop of rebuild_wim has gone on from freed memory
NoFreedMemoryInCommit == commit.pc # "crashed"

\* C40: on a read-write mount the staging list holds exactly the descriptors
\* of the store whose location is in_staging_file, the lte_inode of each of
\* them is an inode that has not been freed, and the drain and the rehash of
\* rebuild_wim visit each of them once without reading a freed inode or a
\* descriptor that has been discarded.
C40_StagingListSound ==
    /\ StagingListIsTheStagedOnes
    /\ OwnerInodesLive
    /\ NoFreedMemoryInCommit
====
